---- MODULE Spec2Model ----
(***************************************************************************)
(* Model of the in-memory OrderPlugin of src/scripts/pizza_agent_python.py *)
(* (class OrderPlugin, lines 175-280): the order table current_orders, the *)
(* counter order_counter, and the four kernel functions create_order,      *)
(* add_item_to_order, get_order_status and complete_order.                 *)
(*                                                                         *)
(* Representation choices:                                                 *)
(*  - an item name is a sequence of one-character strings, so that         *)
(*    str.lower() is computed character by character;                      *)
(*  - a Python float is the pair [cents, resid] that stands for the exact  *)
(*    binary64 value (cents * 2^52 + resid) / (100 * 2^52); additions and  *)
(*    multiplications round to nearest-even as IEEE 754 does;              *)
(*  - a returned f-string is a record of its kind and interpolated fields. *)
(*                                                                         *)
(* Four further specifications share the module:                           *)
(*  - MenuSpec: the plugin called one call at a time, as in Spec, with     *)
(*    item names in further spellings and longer item lists;               *)
(*  - ConcSpec: two threads inside the plugin at once, each method split   *)
(*    at its accesses of the shared counter and table;                     *)
(*  - ServerSpec: the handlers process_message, stream_message and         *)
(*    delete_thread of src/scripts/pizza_api_server.py over the dict       *)
(*    active_threads, interleaved at their awaits and yields;              *)
(*  - SerialSpec: the same handlers, one request at a time.                *)
(***************************************************************************)
EXTENDS Integers, Sequences, FiniteSets, TLC

\* ---------------------------------------------------------------- bounds
MaxOrders == 2      \* create_order is explored until this many orders exist
MaxItems  == 3      \* entries in all item lists together
MaxMenuItems == 4   \* the same in MenuSpec
MaxRequests == 3    \* HTTP requests the api server receives
MaxInFlight == 2    \* requests the api server handles at the same time
MaxDebt   == 199   \* how far (cents) negative quantities may pull a total
                    \* below the worth of the order's items

\* ------------------------------------------------------------ input sets
\* "Pepperoni", "Soda", "soda" (valid, two spellings of one key), "Sushi" (not on the menu)
ItemNames ==
  { <<"P","e","p","p","e","r","o","n","i">>,
    <<"S","o","d","a">>,
    <<"s","o","d","a">>,
    <<"S","u","s","h","i">> }
CustomerNames == {"", "Alice"}
\* quantities: negative, zero, one, several
Quantities == {-1, 0, 1, 2}
\* MenuSpec: "Pepperoni", three spellings of soda, the last with a long s
\* for its first letter (its capital is S, and str.lower() keeps it), and
\* "chicken wings" with the Kelvin sign (which str.lower() turns into k)
MenuItemNames ==
  { <<"P","e","p","p","e","r","o","n","i">>,
    <<"S","o","d","a">>,
    <<"s","o","d","a">>,
    <<"\\u017f","o","d","a">>,
    <<"c","h","i","c","\\u212a","e","n"," ","w","i","n","g","s">> }
\* MenuSpec: the quantities that add entries
MenuQuantities == {1, 2}

\* ------------------------------------------------------- string helpers
\* A text is a sequence of characters, and a character is a string: the
\* character itself or, when a string of a module cannot hold it, its Python
\* escape (\u017f is the long s, \u212a the Kelvin sign). The backslash is
\* written as its escape as well (\\), so that no two texts are spelled
\* alike.
\* The characters are those of the Basic Multilingual Plane; their case
\* mappings, the letters with a case, the characters a case rule looks
\* through and the whitespace are those of Unicode 14, which Python 3.11
\* uses.

\* str(): the Python string spelled by a sequence of characters
RECURSIVE Str(_)
Str(s) == IF s = <<>> THEN "" ELSE Head(s) \o Str(Tail(s))

\* the characters str.lower() changes into one other character, and what it
\* writes for each
Capitals ==
  << "A", "B", "C", "D", "E", "F", "G", "H", "I", "J", "K", "L", "M", "N",
     "O", "P", "Q", "R", "S", "T", "U", "V", "W", "X", "Y", "Z", "À", "Á",
     "Â", "Ã", "Ä", "Å", "Æ", "Ç", "È", "É", "Ê", "Ë", "Ì", "Í", "Î", "Ï",
     "Ð", "Ñ", "Ò", "Ó", "Ô", "Õ", "Ö", "Ø", "Ù", "Ú", "Û", "Ü", "Ý", "Þ",
     "\\u0100", "\\u0102", "\\u0104", "\\u0106", "\\u0108", "\\u010a",
     "\\u010c", "\\u010e", "\\u0110", "\\u0112", "\\u0114", "\\u0116",
     "\\u0118", "\\u011a", "\\u011c", "\\u011e", "\\u0120", "\\u0122",
     "\\u0124", "\\u0126", "\\u0128", "\\u012a", "\\u012c", "\\u012e",
     "\\u0132", "\\u0134", "\\u0136", "\\u0139", "\\u013b", "\\u013d",
     "\\u013f", "\\u0141", "\\u0143", "\\u0145", "\\u0147", "\\u014a",
     "\\u014c", "\\u014e", "\\u0150", "\\u0152", "\\u0154", "\\u0156",
     "\\u0158", "\\u015a", "\\u015c", "\\u015e", "\\u0160", "\\u0162",
     "\\u0164", "\\u0166", "\\u0168", "\\u016a", "\\u016c", "\\u016e",
     "\\u0170", "\\u0172", "\\u0174", "\\u0176", "\\u0178", "\\u0179",
     "\\u017b", "\\u017d", "Ɓ", "Ƃ", "Ƅ", "Ɔ", "Ƈ", "Ɖ", "Ɗ", "Ƌ", "Ǝ", "Ə",
     "Ɛ", "Ƒ", "Ɠ", "Ɣ", "Ɩ", "Ɨ", "Ƙ", "Ɯ", "Ɲ", "Ɵ", "Ơ", "Ƣ", "Ƥ", "Ʀ",
     "Ƨ", "Ʃ", "Ƭ", "Ʈ", "Ư", "Ʊ", "Ʋ", "Ƴ", "Ƶ", "Ʒ", "Ƹ", "Ƽ", "Ǆ", "ǅ",
     "Ǉ", "ǈ", "Ǌ", "ǋ", "Ǎ", "Ǐ", "Ǒ", "Ǔ", "Ǖ", "Ǘ", "Ǚ", "Ǜ", "Ǟ", "Ǡ",
     "Ǣ", "Ǥ", "Ǧ", "Ǩ", "Ǫ", "Ǭ", "Ǯ", "Ǳ", "ǲ", "Ǵ", "Ƕ", "Ƿ", "Ǹ", "Ǻ",
     "Ǽ", "Ǿ", "\\u0200", "\\u0202", "\\u0204", "\\u0206", "\\u0208",
     "\\u020a", "\\u020c", "\\u020e", "\\u0210", "\\u0212", "\\u0214",
     "\\u0216", "\\u0218", "\\u021a", "\\u021c", "\\u021e", "\\u0220",
     "\\u0222", "\\u0224", "\\u0226", "\\u0228", "\\u022a", "\\u022c",
     "\\u022e", "\\u0230", "\\u0232", "\\u023a", "\\u023b", "\\u023d",
     "\\u023e", "\\u0241", "\\u0243", "\\u0244", "\\u0245", "\\u0246",
     "\\u0248", "\\u024a", "\\u024c", "\\u024e", "\\u0370", "\\u0372",
     "\\u0376", "\\u037f", "Ά", "Έ", "Ή", "Ί", "Ό", "Ύ", "Ώ", "Α", "Β", "Γ",
     "Δ", "Ε", "Ζ", "Η", "Θ", "Ι", "Κ", "Λ", "Μ", "Ν", "Ξ", "Ο", "Π", "Ρ",
     "Σ", "Τ", "Υ", "Φ", "Χ", "Ψ", "Ω", "Ϊ", "Ϋ", "Ϗ", "Ϙ", "Ϛ", "Ϝ", "Ϟ",
     "Ϡ", "Ϣ", "Ϥ", "Ϧ", "Ϩ", "Ϫ", "Ϭ", "Ϯ", "ϴ", "Ϸ", "Ϲ", "Ϻ", "Ͻ", "Ͼ",
     "Ͽ", "\\u0400", "\\u0401", "\\u0402", "\\u0403", "\\u0404", "\\u0405",
     "\\u0406", "\\u0407", "\\u0408", "\\u0409", "\\u040a", "\\u040b",
     "\\u040c", "\\u040d", "\\u040e", "\\u040f", "\\u0410", "\\u0411",
     "\\u0412", "\\u0413", "\\u0414", "\\u0415", "\\u0416", "\\u0417",
     "\\u0418", "\\u0419", "\\u041a", "\\u041b", "\\u041c", "\\u041d",
     "\\u041e", "\\u041f", "\\u0420", "\\u0421", "\\u0422", "\\u0423",
     "\\u0424", "\\u0425", "\\u0426", "\\u0427", "\\u0428", "\\u0429",
     "\\u042a", "\\u042b", "\\u042c", "\\u042d", "\\u042e", "\\u042f",
     "\\u0460", "\\u0462", "\\u0464", "\\u0466", "\\u0468", "\\u046a",
     "\\u046c", "\\u046e", "\\u0470", "\\u0472", "\\u0474", "\\u0476",
     "\\u0478", "\\u047a", "\\u047c", "\\u047e", "Ҁ", "Ҋ", "Ҍ", "Ҏ", "Ґ", "Ғ",
     "Ҕ", "Җ", "Ҙ", "Қ", "Ҝ", "Ҟ", "Ҡ", "Ң", "Ҥ", "Ҧ", "Ҩ", "Ҫ", "Ҭ", "Ү",
     "Ұ", "Ҳ", "Ҵ", "Ҷ", "Ҹ", "Һ", "Ҽ", "Ҿ", "Ӏ", "Ӂ", "Ӄ", "Ӆ", "Ӈ", "Ӊ",
     "Ӌ", "Ӎ", "Ӑ", "Ӓ", "Ӕ", "Ӗ", "Ә", "Ӛ", "Ӝ", "Ӟ", "Ӡ", "Ӣ", "Ӥ", "Ӧ",
     "Ө", "Ӫ", "Ӭ", "Ӯ", "Ӱ", "Ӳ", "Ӵ", "Ӷ", "Ӹ", "Ӻ", "Ӽ", "Ӿ", "\\u0500",
     "\\u0502", "\\u0504", "\\u0506", "\\u0508", "\\u050a", "\\u050c",
     "\\u050e", "\\u0510", "\\u0512", "\\u0514", "\\u0516", "\\u0518",
     "\\u051a", "\\u051c", "\\u051e", "\\u0520", "\\u0522", "\\u0524",
     "\\u0526", "\\u0528", "\\u052a", "\\u052c", "\\u052e", "\\u0531",
     "\\u0532", "\\u0533", "\\u0534", "\\u0535", "\\u0536", "\\u0537",
     "\\u0538", "\\u0539", "\\u053a", "\\u053b", "\\u053c", "\\u053d",
     "\\u053e", "\\u053f", "\\u0540", "\\u0541", "\\u0542", "\\u0543",
     "\\u0544", "\\u0545", "\\u0546", "\\u0547", "\\u0548", "\\u0549",
     "\\u054a", "\\u054b", "\\u054c", "\\u054d", "\\u054e", "\\u054f",
     "\\u0550", "\\u0551", "\\u0552", "\\u0553", "\\u0554", "\\u0555",
     "\\u0556", "Ⴀ", "Ⴁ", "Ⴂ", "Ⴃ", "Ⴄ", "Ⴅ", "Ⴆ", "Ⴇ", "Ⴈ", "Ⴉ", "Ⴊ", "Ⴋ",
     "Ⴌ", "Ⴍ", "Ⴎ", "Ⴏ", "Ⴐ", "Ⴑ", "Ⴒ", "Ⴓ", "Ⴔ", "Ⴕ", "Ⴖ", "Ⴗ", "Ⴘ", "Ⴙ",
     "Ⴚ", "Ⴛ", "Ⴜ", "Ⴝ", "Ⴞ", "Ⴟ", "Ⴠ", "Ⴡ", "Ⴢ", "Ⴣ", "Ⴤ", "Ⴥ", "Ⴧ", "Ⴭ",
     "Ꭰ", "Ꭱ", "Ꭲ", "Ꭳ", "Ꭴ", "Ꭵ", "Ꭶ", "Ꭷ", "Ꭸ", "Ꭹ", "Ꭺ", "Ꭻ", "Ꭼ", "Ꭽ",
     "Ꭾ", "Ꭿ", "Ꮀ", "Ꮁ", "Ꮂ", "Ꮃ", "Ꮄ", "Ꮅ", "Ꮆ", "Ꮇ", "Ꮈ", "Ꮉ", "Ꮊ", "Ꮋ",
     "Ꮌ", "Ꮍ", "Ꮎ", "Ꮏ", "Ꮐ", "Ꮑ", "Ꮒ", "Ꮓ", "Ꮔ", "Ꮕ", "Ꮖ", "Ꮗ", "Ꮘ", "Ꮙ",
     "Ꮚ", "Ꮛ", "Ꮜ", "Ꮝ", "Ꮞ", "Ꮟ", "Ꮠ", "Ꮡ", "Ꮢ", "Ꮣ", "Ꮤ", "Ꮥ", "Ꮦ", "Ꮧ",
     "Ꮨ", "Ꮩ", "Ꮪ", "Ꮫ", "Ꮬ", "Ꮭ", "Ꮮ", "Ꮯ", "Ꮰ", "Ꮱ", "Ꮲ", "Ꮳ", "Ꮴ", "Ꮵ",
     "Ꮶ", "Ꮷ", "Ꮸ", "Ꮹ", "Ꮺ", "Ꮻ", "Ꮼ", "Ꮽ", "Ꮾ", "Ꮿ", "Ᏸ", "Ᏹ", "Ᏺ", "Ᏻ",
     "Ᏼ", "Ᏽ", "Ა", "Ბ", "Გ", "Დ", "Ე", "Ვ", "Ზ", "Თ", "Ი", "Კ", "Ლ", "Მ",
     "Ნ", "Ო", "Პ", "Ჟ", "Რ", "Ს", "Ტ", "Უ", "Ფ", "Ქ", "Ღ", "Ყ", "Შ", "Ჩ",
     "Ც", "Ძ", "Წ", "Ჭ", "Ხ", "Ჯ", "Ჰ", "Ჱ", "Ჲ", "Ჳ", "Ჴ", "Ჵ", "Ჶ", "Ჷ",
     "Ჸ", "Ჹ", "Ჺ", "Ჽ", "Ჾ", "Ჿ", "\\u1e00", "\\u1e02", "\\u1e04", "\\u1e06",
     "\\u1e08", "\\u1e0a", "\\u1e0c", "\\u1e0e", "\\u1e10", "\\u1e12",
     "\\u1e14", "\\u1e16", "\\u1e18", "\\u1e1a", "\\u1e1c", "\\u1e1e",
     "\\u1e20", "\\u1e22", "\\u1e24", "\\u1e26", "\\u1e28", "\\u1e2a",
     "\\u1e2c", "\\u1e2e", "\\u1e30", "\\u1e32", "\\u1e34", "\\u1e36",
     "\\u1e38", "\\u1e3a", "\\u1e3c", "\\u1e3e", "\\u1e40", "\\u1e42",
     "\\u1e44", "\\u1e46", "\\u1e48", "\\u1e4a", "\\u1e4c", "\\u1e4e",
     "\\u1e50", "\\u1e52", "\\u1e54", "\\u1e56", "\\u1e58", "\\u1e5a",
     "\\u1e5c", "\\u1e5e", "\\u1e60", "\\u1e62", "\\u1e64", "\\u1e66",
     "\\u1e68", "\\u1e6a", "\\u1e6c", "\\u1e6e", "\\u1e70", "\\u1e72",
     "\\u1e74", "\\u1e76", "\\u1e78", "\\u1e7a", "\\u1e7c", "\\u1e7e", "Ẁ",
     "Ẃ", "Ẅ", "Ẇ", "Ẉ", "Ẋ", "Ẍ", "Ẏ", "Ẑ", "Ẓ", "Ẕ", "ẞ", "Ạ", "Ả", "Ấ",
     "Ầ", "Ẩ", "Ẫ", "Ậ", "Ắ", "Ằ", "Ẳ", "Ẵ", "Ặ", "Ẹ", "Ẻ", "Ẽ", "Ế", "Ề",
     "Ể", "Ễ", "Ệ", "Ỉ", "Ị", "Ọ", "Ỏ", "Ố", "Ồ", "Ổ", "Ỗ", "Ộ", "Ớ", "Ờ",
     "Ở", "Ỡ", "Ợ", "Ụ", "Ủ", "Ứ", "Ừ", "Ử", "Ữ", "Ự", "Ỳ", "Ỵ", "Ỷ", "Ỹ",
     "Ỻ", "Ỽ", "Ỿ", "\\u1f08", "\\u1f09", "\\u1f0a", "\\u1f0b", "\\u1f0c",
     "\\u1f0d", "\\u1f0e", "\\u1f0f", "\\u1f18", "\\u1f19", "\\u1f1a",
     "\\u1f1b", "\\u1f1c", "\\u1f1d", "\\u1f28", "\\u1f29", "\\u1f2a",
     "\\u1f2b", "\\u1f2c", "\\u1f2d", "\\u1f2e", "\\u1f2f", "\\u1f38",
     "\\u1f39", "\\u1f3a", "\\u1f3b", "\\u1f3c", "\\u1f3d", "\\u1f3e",
     "\\u1f3f", "\\u1f48", "\\u1f49", "\\u1f4a", "\\u1f4b", "\\u1f4c",
     "\\u1f4d", "\\u1f59", "\\u1f5b", "\\u1f5d", "\\u1f5f", "\\u1f68",
     "\\u1f69", "\\u1f6a", "\\u1f6b", "\\u1f6c", "\\u1f6d", "\\u1f6e",
     "\\u1f6f", "ᾈ", "ᾉ", "ᾊ", "ᾋ", "ᾌ", "ᾍ", "ᾎ", "ᾏ", "ᾘ", "ᾙ", "ᾚ", "ᾛ",
     "ᾜ", "ᾝ", "ᾞ", "ᾟ", "ᾨ", "ᾩ", "ᾪ", "ᾫ", "ᾬ", "ᾭ", "ᾮ", "ᾯ", "Ᾰ", "Ᾱ",
     "Ὰ", "Ά", "ᾼ", "Ὲ", "Έ", "Ὴ", "Ή", "ῌ", "Ῐ", "Ῑ", "Ὶ", "Ί", "Ῠ", "Ῡ",
     "Ὺ", "Ύ", "Ῥ", "Ὸ", "Ό", "Ὼ", "Ώ", "ῼ", "\\u2126", "\\u212a", "\\u212b",
     "\\u2132", "\\u2160", "\\u2161", "\\u2162", "\\u2163", "\\u2164",
     "\\u2165", "\\u2166", "\\u2167", "\\u2168", "\\u2169", "\\u216a",
     "\\u216b", "\\u216c", "\\u216d", "\\u216e", "\\u216f", "Ↄ", "Ⓐ", "Ⓑ",
     "Ⓒ", "Ⓓ", "Ⓔ", "Ⓕ", "Ⓖ", "Ⓗ", "Ⓘ", "Ⓙ", "Ⓚ", "Ⓛ", "Ⓜ", "Ⓝ", "Ⓞ", "Ⓟ",
     "Ⓠ", "Ⓡ", "Ⓢ", "Ⓣ", "Ⓤ", "Ⓥ", "Ⓦ", "Ⓧ", "Ⓨ", "Ⓩ", "\\u2c00", "\\u2c01",
     "\\u2c02", "\\u2c03", "\\u2c04", "\\u2c05", "\\u2c06", "\\u2c07",
     "\\u2c08", "\\u2c09", "\\u2c0a", "\\u2c0b", "\\u2c0c", "\\u2c0d",
     "\\u2c0e", "\\u2c0f", "\\u2c10", "\\u2c11", "\\u2c12", "\\u2c13",
     "\\u2c14", "\\u2c15", "\\u2c16", "\\u2c17", "\\u2c18", "\\u2c19",
     "\\u2c1a", "\\u2c1b", "\\u2c1c", "\\u2c1d", "\\u2c1e", "\\u2c1f",
     "\\u2c20", "\\u2c21", "\\u2c22", "\\u2c23", "\\u2c24", "\\u2c25",
     "\\u2c26", "\\u2c27", "\\u2c28", "\\u2c29", "\\u2c2a", "\\u2c2b",
     "\\u2c2c", "\\u2c2d", "\\u2c2e", "\\u2c2f", "\\u2c60", "\\u2c62",
     "\\u2c63", "\\u2c64", "\\u2c67", "\\u2c69", "\\u2c6b", "\\u2c6d",
     "\\u2c6e", "\\u2c6f", "\\u2c70", "\\u2c72", "\\u2c75", "\\u2c7e",
     "\\u2c7f", "Ⲁ", "Ⲃ", "Ⲅ", "Ⲇ", "Ⲉ", "Ⲋ", "Ⲍ", "Ⲏ", "Ⲑ", "Ⲓ", "Ⲕ", "Ⲗ",
     "Ⲙ", "Ⲛ", "Ⲝ", "Ⲟ", "Ⲡ", "Ⲣ", "Ⲥ", "Ⲧ", "Ⲩ", "Ⲫ", "Ⲭ", "Ⲯ", "Ⲱ", "Ⲳ",
     "Ⲵ", "Ⲷ", "Ⲹ", "Ⲻ", "Ⲽ", "Ⲿ", "Ⳁ", "Ⳃ", "Ⳅ", "Ⳇ", "Ⳉ", "Ⳋ", "Ⳍ", "Ⳏ",
     "Ⳑ", "Ⳓ", "Ⳕ", "Ⳗ", "Ⳙ", "Ⳛ", "Ⳝ", "Ⳟ", "Ⳡ", "Ⳣ", "Ⳬ", "Ⳮ", "Ⳳ",
     "\\ua640", "\\ua642", "\\ua644", "\\ua646", "\\ua648", "\\ua64a",
     "\\ua64c", "\\ua64e", "\\ua650", "\\ua652", "\\ua654", "\\ua656",
     "\\ua658", "\\ua65a", "\\ua65c", "\\ua65e", "\\ua660", "\\ua662",
     "\\ua664", "\\ua666", "\\ua668", "\\ua66a", "\\ua66c", "Ꚁ", "Ꚃ", "Ꚅ",
     "Ꚇ", "Ꚉ", "Ꚋ", "Ꚍ", "Ꚏ", "Ꚑ", "Ꚓ", "Ꚕ", "Ꚗ", "Ꚙ", "Ꚛ", "\\ua722",
     "\\ua724", "\\ua726", "\\ua728", "\\ua72a", "\\ua72c", "\\ua72e",
     "\\ua732", "\\ua734", "\\ua736", "\\ua738", "\\ua73a", "\\ua73c",
     "\\ua73e", "\\ua740", "\\ua742", "\\ua744", "\\ua746", "\\ua748",
     "\\ua74a", "\\ua74c", "\\ua74e", "\\ua750", "\\ua752", "\\ua754",
     "\\ua756", "\\ua758", "\\ua75a", "\\ua75c", "\\ua75e", "\\ua760",
     "\\ua762", "\\ua764", "\\ua766", "\\ua768", "\\ua76a", "\\ua76c",
     "\\ua76e", "\\ua779", "\\ua77b", "\\ua77d", "\\ua77e", "Ꞁ", "Ꞃ", "Ꞅ",
     "Ꞇ", "Ꞌ", "Ɥ", "Ꞑ", "Ꞓ", "Ꞗ", "Ꞙ", "Ꞛ", "Ꞝ", "Ꞟ", "Ꞡ", "Ꞣ", "Ꞥ", "Ꞧ",
     "Ꞩ", "Ɦ", "Ɜ", "Ɡ", "Ɬ", "Ɪ", "Ʞ", "Ʇ", "Ʝ", "Ꭓ", "Ꞵ", "Ꞷ", "Ꞹ", "Ꞻ",
     "Ꞽ", "Ꞿ", "Ꟁ", "Ꟃ", "Ꞔ", "Ʂ", "Ᶎ", "Ꟈ", "Ꟊ", "Ꟑ", "Ꟗ", "Ꟙ", "Ꟶ",
     "\\uff21", "\\uff22", "\\uff23", "\\uff24", "\\uff25", "\\uff26",
     "\\uff27", "\\uff28", "\\uff29", "\\uff2a", "\\uff2b", "\\uff2c",
     "\\uff2d", "\\uff2e", "\\uff2f", "\\uff30", "\\uff31", "\\uff32",
     "\\uff33", "\\uff34", "\\uff35", "\\uff36", "\\uff37", "\\uff38",
     "\\uff39", "\\uff3a" >>
Smalls ==
  << "a", "b", "c", "d", "e", "f", "g", "h", "i", "j", "k", "l", "m", "n",
     "o", "p", "q", "r", "s", "t", "u", "v", "w", "x", "y", "z", "à", "á",
     "â", "ã", "ä", "å", "æ", "ç", "è", "é", "ê", "ë", "ì", "í", "î", "ï",
     "ð", "ñ", "ò", "ó", "ô", "õ", "ö", "ø", "ù", "ú", "û", "ü", "ý", "þ",
     "\\u0101", "\\u0103", "\\u0105", "\\u0107", "\\u0109", "\\u010b",
     "\\u010d", "\\u010f", "\\u0111", "\\u0113", "\\u0115", "\\u0117",
     "\\u0119", "\\u011b", "\\u011d", "\\u011f", "\\u0121", "\\u0123",
     "\\u0125", "\\u0127", "\\u0129", "\\u012b", "\\u012d", "\\u012f",
     "\\u0133", "\\u0135", "\\u0137", "\\u013a", "\\u013c", "\\u013e",
     "\\u0140", "\\u0142", "\\u0144", "\\u0146", "\\u0148", "\\u014b",
     "\\u014d", "\\u014f", "\\u0151", "\\u0153", "\\u0155", "\\u0157",
     "\\u0159", "\\u015b", "\\u015d", "\\u015f", "\\u0161", "\\u0163",
     "\\u0165", "\\u0167", "\\u0169", "\\u016b", "\\u016d", "\\u016f",
     "\\u0171", "\\u0173", "\\u0175", "\\u0177", "ÿ", "\\u017a", "\\u017c",
     "\\u017e", "\\u0253", "ƃ", "ƅ", "\\u0254", "ƈ", "\\u0256", "\\u0257",
     "ƌ", "ǝ", "\\u0259", "\\u025b", "ƒ", "\\u0260", "\\u0263", "\\u0269",
     "\\u0268", "ƙ", "\\u026f", "\\u0272", "\\u0275", "ơ", "ƣ", "ƥ", "ʀ", "ƨ",
     "ʃ", "ƭ", "ʈ", "ư", "ʊ", "ʋ", "ƴ", "ƶ", "ʒ", "ƹ", "ƽ", "ǆ", "ǆ", "ǉ",
     "ǉ", "ǌ", "ǌ", "ǎ", "ǐ", "ǒ", "ǔ", "ǖ", "ǘ", "ǚ", "ǜ", "ǟ", "ǡ", "ǣ",
     "ǥ", "ǧ", "ǩ", "ǫ", "ǭ", "ǯ", "ǳ", "ǳ", "ǵ", "ƕ", "ƿ", "ǹ", "ǻ", "ǽ",
     "ǿ", "\\u0201", "\\u0203", "\\u0205", "\\u0207", "\\u0209", "\\u020b",
     "\\u020d", "\\u020f", "\\u0211", "\\u0213", "\\u0215", "\\u0217",
     "\\u0219", "\\u021b", "\\u021d", "\\u021f", "ƞ", "\\u0223", "\\u0225",
     "\\u0227", "\\u0229", "\\u022b", "\\u022d", "\\u022f", "\\u0231",
     "\\u0233", "\\u2c65", "\\u023c", "ƚ", "\\u2c66", "\\u0242", "ƀ", "ʉ",
     "ʌ", "\\u0247", "\\u0249", "\\u024b", "\\u024d", "\\u024f", "\\u0371",
     "\\u0373", "\\u0377", "ϳ", "ά", "έ", "ή", "ί", "ό", "ύ", "ώ", "α", "β",
     "γ", "δ", "ε", "ζ", "η", "θ", "ι", "κ", "λ", "μ", "ν", "ξ", "ο", "π",
     "ρ", "σ", "τ", "υ", "φ", "χ", "ψ", "ω", "ϊ", "ϋ", "ϗ", "ϙ", "ϛ", "ϝ",
     "ϟ", "ϡ", "ϣ", "ϥ", "ϧ", "ϩ", "ϫ", "ϭ", "ϯ", "θ", "ϸ", "ϲ", "ϻ",
     "\\u037b", "\\u037c", "\\u037d", "\\u0450", "\\u0451", "\\u0452",
     "\\u0453", "\\u0454", "\\u0455", "\\u0456", "\\u0457", "\\u0458",
     "\\u0459", "\\u045a", "\\u045b", "\\u045c", "\\u045d", "\\u045e",
     "\\u045f", "\\u0430", "\\u0431", "\\u0432", "\\u0433", "\\u0434",
     "\\u0435", "\\u0436", "\\u0437", "\\u0438", "\\u0439", "\\u043a",
     "\\u043b", "\\u043c", "\\u043d", "\\u043e", "\\u043f", "\\u0440",
     "\\u0441", "\\u0442", "\\u0443", "\\u0444", "\\u0445", "\\u0446",
     "\\u0447", "\\u0448", "\\u0449", "\\u044a", "\\u044b", "\\u044c",
     "\\u044d", "\\u044e", "\\u044f", "\\u0461", "\\u0463", "\\u0465",
     "\\u0467", "\\u0469", "\\u046b", "\\u046d", "\\u046f", "\\u0471",
     "\\u0473", "\\u0475", "\\u0477", "\\u0479", "\\u047b", "\\u047d",
     "\\u047f", "ҁ", "ҋ", "ҍ", "ҏ", "ґ", "ғ", "ҕ", "җ", "ҙ", "қ", "ҝ", "ҟ",
     "ҡ", "ң", "ҥ", "ҧ", "ҩ", "ҫ", "ҭ", "ү", "ұ", "ҳ", "ҵ", "ҷ", "ҹ", "һ",
     "ҽ", "ҿ", "ӏ", "ӂ", "ӄ", "ӆ", "ӈ", "ӊ", "ӌ", "ӎ", "ӑ", "ӓ", "ӕ", "ӗ",
     "ә", "ӛ", "ӝ", "ӟ", "ӡ", "ӣ", "ӥ", "ӧ", "ө", "ӫ", "ӭ", "ӯ", "ӱ", "ӳ",
     "ӵ", "ӷ", "ӹ", "ӻ", "ӽ", "ӿ", "\\u0501", "\\u0503", "\\u0505", "\\u0507",
     "\\u0509", "\\u050b", "\\u050d", "\\u050f", "\\u0511", "\\u0513",
     "\\u0515", "\\u0517", "\\u0519", "\\u051b", "\\u051d", "\\u051f",
     "\\u0521", "\\u0523", "\\u0525", "\\u0527", "\\u0529", "\\u052b",
     "\\u052d", "\\u052f", "\\u0561", "\\u0562", "\\u0563", "\\u0564",
     "\\u0565", "\\u0566", "\\u0567", "\\u0568", "\\u0569", "\\u056a",
     "\\u056b", "\\u056c", "\\u056d", "\\u056e", "\\u056f", "\\u0570",
     "\\u0571", "\\u0572", "\\u0573", "\\u0574", "\\u0575", "\\u0576",
     "\\u0577", "\\u0578", "\\u0579", "\\u057a", "\\u057b", "\\u057c",
     "\\u057d", "\\u057e", "\\u057f", "ր", "ց", "ւ", "փ", "ք", "օ", "ֆ",
     "\\u2d00", "\\u2d01", "\\u2d02", "\\u2d03", "\\u2d04", "\\u2d05",
     "\\u2d06", "\\u2d07", "\\u2d08", "\\u2d09", "\\u2d0a", "\\u2d0b",
     "\\u2d0c", "\\u2d0d", "\\u2d0e", "\\u2d0f", "\\u2d10", "\\u2d11",
     "\\u2d12", "\\u2d13", "\\u2d14", "\\u2d15", "\\u2d16", "\\u2d17",
     "\\u2d18", "\\u2d19", "\\u2d1a", "\\u2d1b", "\\u2d1c", "\\u2d1d",
     "\\u2d1e", "\\u2d1f", "\\u2d20", "\\u2d21", "\\u2d22", "\\u2d23",
     "\\u2d24", "\\u2d25", "\\u2d27", "\\u2d2d", "\\uab70", "\\uab71",
     "\\uab72", "\\uab73", "\\uab74", "\\uab75", "\\uab76", "\\uab77",
     "\\uab78", "\\uab79", "\\uab7a", "\\uab7b", "\\uab7c", "\\uab7d",
     "\\uab7e", "\\uab7f", "ꮀ", "ꮁ", "ꮂ", "ꮃ", "ꮄ", "ꮅ", "ꮆ", "ꮇ", "ꮈ", "ꮉ",
     "ꮊ", "ꮋ", "ꮌ", "ꮍ", "ꮎ", "ꮏ", "ꮐ", "ꮑ", "ꮒ", "ꮓ", "ꮔ", "ꮕ", "ꮖ", "ꮗ",
     "ꮘ", "ꮙ", "ꮚ", "ꮛ", "ꮜ", "ꮝ", "ꮞ", "ꮟ", "ꮠ", "ꮡ", "ꮢ", "ꮣ", "ꮤ", "ꮥ",
     "ꮦ", "ꮧ", "ꮨ", "ꮩ", "ꮪ", "ꮫ", "ꮬ", "ꮭ", "ꮮ", "ꮯ", "ꮰ", "ꮱ", "ꮲ", "ꮳ",
     "ꮴ", "ꮵ", "ꮶ", "ꮷ", "ꮸ", "ꮹ", "ꮺ", "ꮻ", "ꮼ", "ꮽ", "ꮾ", "ꮿ", "ᏸ", "ᏹ",
     "ᏺ", "ᏻ", "ᏼ", "ᏽ", "ა", "ბ", "გ", "დ", "ე", "ვ", "ზ", "თ", "ი", "კ",
     "ლ", "მ", "ნ", "ო", "პ", "ჟ", "რ", "ს", "ტ", "უ", "ფ", "ქ", "ღ", "ყ",
     "შ", "ჩ", "ც", "ძ", "წ", "ჭ", "ხ", "ჯ", "ჰ", "ჱ", "ჲ", "ჳ", "ჴ", "ჵ",
     "ჶ", "ჷ", "ჸ", "ჹ", "ჺ", "ჽ", "ჾ", "ჿ", "\\u1e01", "\\u1e03", "\\u1e05",
     "\\u1e07", "\\u1e09", "\\u1e0b", "\\u1e0d", "\\u1e0f", "\\u1e11",
     "\\u1e13", "\\u1e15", "\\u1e17", "\\u1e19", "\\u1e1b", "\\u1e1d",
     "\\u1e1f", "\\u1e21", "\\u1e23", "\\u1e25", "\\u1e27", "\\u1e29",
     "\\u1e2b", "\\u1e2d", "\\u1e2f", "\\u1e31", "\\u1e33", "\\u1e35",
     "\\u1e37", "\\u1e39", "\\u1e3b", "\\u1e3d", "\\u1e3f", "\\u1e41",
     "\\u1e43", "\\u1e45", "\\u1e47", "\\u1e49", "\\u1e4b", "\\u1e4d",
     "\\u1e4f", "\\u1e51", "\\u1e53", "\\u1e55", "\\u1e57", "\\u1e59",
     "\\u1e5b", "\\u1e5d", "\\u1e5f", "\\u1e61", "\\u1e63", "\\u1e65",
     "\\u1e67", "\\u1e69", "\\u1e6b", "\\u1e6d", "\\u1e6f", "\\u1e71",
     "\\u1e73", "\\u1e75", "\\u1e77", "\\u1e79", "\\u1e7b", "\\u1e7d",
     "\\u1e7f", "ẁ", "ẃ", "ẅ", "ẇ", "ẉ", "ẋ", "ẍ", "ẏ", "ẑ", "ẓ", "ẕ", "ß",
     "ạ", "ả", "ấ", "ầ", "ẩ", "ẫ", "ậ", "ắ", "ằ", "ẳ", "ẵ", "ặ", "ẹ", "ẻ",
     "ẽ", "ế", "ề", "ể", "ễ", "ệ", "ỉ", "ị", "ọ", "ỏ", "ố", "ồ", "ổ", "ỗ",
     "ộ", "ớ", "ờ", "ở", "ỡ", "ợ", "ụ", "ủ", "ứ", "ừ", "ử", "ữ", "ự", "ỳ",
     "ỵ", "ỷ", "ỹ", "ỻ", "ỽ", "ỿ", "\\u1f00", "\\u1f01", "\\u1f02", "\\u1f03",
     "\\u1f04", "\\u1f05", "\\u1f06", "\\u1f07", "\\u1f10", "\\u1f11",
     "\\u1f12", "\\u1f13", "\\u1f14", "\\u1f15", "\\u1f20", "\\u1f21",
     "\\u1f22", "\\u1f23", "\\u1f24", "\\u1f25", "\\u1f26", "\\u1f27",
     "\\u1f30", "\\u1f31", "\\u1f32", "\\u1f33", "\\u1f34", "\\u1f35",
     "\\u1f36", "\\u1f37", "\\u1f40", "\\u1f41", "\\u1f42", "\\u1f43",
     "\\u1f44", "\\u1f45", "\\u1f51", "\\u1f53", "\\u1f55", "\\u1f57",
     "\\u1f60", "\\u1f61", "\\u1f62", "\\u1f63", "\\u1f64", "\\u1f65",
     "\\u1f66", "\\u1f67", "ᾀ", "ᾁ", "ᾂ", "ᾃ", "ᾄ", "ᾅ", "ᾆ", "ᾇ", "ᾐ", "ᾑ",
     "ᾒ", "ᾓ", "ᾔ", "ᾕ", "ᾖ", "ᾗ", "ᾠ", "ᾡ", "ᾢ", "ᾣ", "ᾤ", "ᾥ", "ᾦ", "ᾧ",
     "ᾰ", "ᾱ", "\\u1f70", "\\u1f71", "ᾳ", "\\u1f72", "\\u1f73", "\\u1f74",
     "\\u1f75", "ῃ", "ῐ", "ῑ", "\\u1f76", "\\u1f77", "ῠ", "ῡ", "\\u1f7a",
     "\\u1f7b", "ῥ", "\\u1f78", "\\u1f79", "\\u1f7c", "\\u1f7d", "ῳ", "ω",
     "k", "å", "\\u214e", "\\u2170", "\\u2171", "\\u2172", "\\u2173",
     "\\u2174", "\\u2175", "\\u2176", "\\u2177", "\\u2178", "\\u2179",
     "\\u217a", "\\u217b", "\\u217c", "\\u217d", "\\u217e", "\\u217f", "ↄ",
     "ⓐ", "ⓑ", "ⓒ", "ⓓ", "ⓔ", "ⓕ", "ⓖ", "ⓗ", "ⓘ", "ⓙ", "ⓚ", "ⓛ", "ⓜ", "ⓝ",
     "ⓞ", "ⓟ", "ⓠ", "ⓡ", "ⓢ", "ⓣ", "ⓤ", "ⓥ", "ⓦ", "ⓧ", "ⓨ", "ⓩ", "\\u2c30",
     "\\u2c31", "\\u2c32", "\\u2c33", "\\u2c34", "\\u2c35", "\\u2c36",
     "\\u2c37", "\\u2c38", "\\u2c39", "\\u2c3a", "\\u2c3b", "\\u2c3c",
     "\\u2c3d", "\\u2c3e", "\\u2c3f", "\\u2c40", "\\u2c41", "\\u2c42",
     "\\u2c43", "\\u2c44", "\\u2c45", "\\u2c46", "\\u2c47", "\\u2c48",
     "\\u2c49", "\\u2c4a", "\\u2c4b", "\\u2c4c", "\\u2c4d", "\\u2c4e",
     "\\u2c4f", "\\u2c50", "\\u2c51", "\\u2c52", "\\u2c53", "\\u2c54",
     "\\u2c55", "\\u2c56", "\\u2c57", "\\u2c58", "\\u2c59", "\\u2c5a",
     "\\u2c5b", "\\u2c5c", "\\u2c5d", "\\u2c5e", "\\u2c5f", "\\u2c61",
     "\\u026b", "\\u1d7d", "\\u027d", "\\u2c68", "\\u2c6a", "\\u2c6c",
     "\\u0251", "\\u0271", "\\u0250", "\\u0252", "\\u2c73", "\\u2c76",
     "\\u023f", "\\u0240", "ⲁ", "ⲃ", "ⲅ", "ⲇ", "ⲉ", "ⲋ", "ⲍ", "ⲏ", "ⲑ", "ⲓ",
     "ⲕ", "ⲗ", "ⲙ", "ⲛ", "ⲝ", "ⲟ", "ⲡ", "ⲣ", "ⲥ", "ⲧ", "ⲩ", "ⲫ", "ⲭ", "ⲯ",
     "ⲱ", "ⲳ", "ⲵ", "ⲷ", "ⲹ", "ⲻ", "ⲽ", "ⲿ", "ⳁ", "ⳃ", "ⳅ", "ⳇ", "ⳉ", "ⳋ",
     "ⳍ", "ⳏ", "ⳑ", "ⳓ", "ⳕ", "ⳗ", "ⳙ", "ⳛ", "ⳝ", "ⳟ", "ⳡ", "ⳣ", "ⳬ", "ⳮ",
     "ⳳ", "\\ua641", "\\ua643", "\\ua645", "\\ua647", "\\ua649", "\\ua64b",
     "\\ua64d", "\\ua64f", "\\ua651", "\\ua653", "\\ua655", "\\ua657",
     "\\ua659", "\\ua65b", "\\ua65d", "\\ua65f", "\\ua661", "\\ua663",
     "\\ua665", "\\ua667", "\\ua669", "\\ua66b", "\\ua66d", "ꚁ", "ꚃ", "ꚅ",
     "ꚇ", "ꚉ", "ꚋ", "ꚍ", "ꚏ", "ꚑ", "ꚓ", "ꚕ", "ꚗ", "ꚙ", "ꚛ", "\\ua723",
     "\\ua725", "\\ua727", "\\ua729", "\\ua72b", "\\ua72d", "\\ua72f",
     "\\ua733", "\\ua735", "\\ua737", "\\ua739", "\\ua73b", "\\ua73d",
     "\\ua73f", "\\ua741", "\\ua743", "\\ua745", "\\ua747", "\\ua749",
     "\\ua74b", "\\ua74d", "\\ua74f", "\\ua751", "\\ua753", "\\ua755",
     "\\ua757", "\\ua759", "\\ua75b", "\\ua75d", "\\ua75f", "\\ua761",
     "\\ua763", "\\ua765", "\\ua767", "\\ua769", "\\ua76b", "\\ua76d",
     "\\ua76f", "\\ua77a", "\\ua77c", "\\u1d79", "\\ua77f", "ꞁ", "ꞃ", "ꞅ",
     "ꞇ", "ꞌ", "\\u0265", "ꞑ", "ꞓ", "ꞗ", "ꞙ", "ꞛ", "ꞝ", "ꞟ", "ꞡ", "ꞣ", "ꞥ",
     "ꞧ", "ꞩ", "\\u0266", "\\u025c", "\\u0261", "\\u026c", "\\u026a", "ʞ",
     "ʇ", "ʝ", "\\uab53", "ꞵ", "ꞷ", "ꞹ", "ꞻ", "ꞽ", "ꞿ", "ꟁ", "ꟃ", "ꞔ", "ʂ",
     "ᶎ", "ꟈ", "ꟊ", "ꟑ", "ꟗ", "ꟙ", "ꟶ", "\\uff41", "\\uff42", "\\uff43",
     "\\uff44", "\\uff45", "\\uff46", "\\uff47", "\\uff48", "\\uff49",
     "\\uff4a", "\\uff4b", "\\uff4c", "\\uff4d", "\\uff4e", "\\uff4f",
     "\\uff50", "\\uff51", "\\uff52", "\\uff53", "\\uff54", "\\uff55",
     "\\uff56", "\\uff57", "\\uff58", "\\uff59", "\\uff5a" >>

\* the lower-case character of each capital
small_of ==
  [c \in {Capitals[i] : i \in DOMAIN Capitals} |->
     Smalls[CHOOSE i \in DOMAIN Capitals : Capitals[i] = c]]

\* the other letters with a case (str.lower() keeps them)
OtherCased ==
  { "ª", "µ", "º", "\\u0131", "\\u0138", "\\u0149", "\\u017f", "ƍ", "ƛ", "ƪ",
    "ƫ", "ƺ", "ƾ", "ǰ", "\\u0221", "\\u0234", "\\u0235", "\\u0236", "\\u0237",
    "\\u0238", "\\u0239", "\\u0255", "\\u0258", "\\u025a", "\\u025d",
    "\\u025e", "\\u025f", "\\u0262", "\\u0264", "\\u0267", "\\u026d",
    "\\u026e", "\\u0270", "\\u0273", "\\u0274", "\\u0276", "\\u0277",
    "\\u0278", "\\u0279", "\\u027a", "\\u027b", "\\u027c", "\\u027e",
    "\\u027f", "ʁ", "ʄ", "ʅ", "ʆ", "ʍ", "ʎ", "ʏ", "ʐ", "ʑ", "ʓ", "ʕ", "ʖ",
    "ʗ", "ʘ", "ʙ", "ʚ", "ʛ", "ʜ", "ʟ", "ʠ", "ʡ", "ʢ", "ʣ", "ʤ", "ʥ", "ʦ", "ʧ",
    "ʨ", "ʩ", "ʪ", "ʫ", "ʬ", "ʭ", "ʮ", "ʯ", "ΐ", "ΰ", "ς", "ϐ", "ϑ", "ϒ", "ϓ",
    "ϔ", "ϕ", "ϖ", "ϰ", "ϱ", "ϵ", "ϼ", "\\u0560", "և", "ֈ", "ᲀ", "ᲁ", "ᲂ",
    "ᲃ", "ᲄ", "ᲅ", "ᲆ", "ᲇ", "ᲈ", "\\u1d00", "\\u1d01", "\\u1d02", "\\u1d03",
    "\\u1d04", "\\u1d05", "\\u1d06", "\\u1d07", "\\u1d08", "\\u1d09",
    "\\u1d0a", "\\u1d0b", "\\u1d0c", "\\u1d0d", "\\u1d0e", "\\u1d0f",
    "\\u1d10", "\\u1d11", "\\u1d12", "\\u1d13", "\\u1d14", "\\u1d15",
    "\\u1d16", "\\u1d17", "\\u1d18", "\\u1d19", "\\u1d1a", "\\u1d1b",
    "\\u1d1c", "\\u1d1d", "\\u1d1e", "\\u1d1f", "\\u1d20", "\\u1d21",
    "\\u1d22", "\\u1d23", "\\u1d24", "\\u1d25", "\\u1d26", "\\u1d27",
    "\\u1d28", "\\u1d29", "\\u1d2a", "\\u1d2b", "\\u1d6b", "\\u1d6c",
    "\\u1d6d", "\\u1d6e", "\\u1d6f", "\\u1d70", "\\u1d71", "\\u1d72",
    "\\u1d73", "\\u1d74", "\\u1d75", "\\u1d76", "\\u1d77", "\\u1d7a",
    "\\u1d7b", "\\u1d7c", "\\u1d7e", "\\u1d7f", "ᶀ", "ᶁ", "ᶂ", "ᶃ", "ᶄ", "ᶅ",
    "ᶆ", "ᶇ", "ᶈ", "ᶉ", "ᶊ", "ᶋ", "ᶌ", "ᶍ", "ᶏ", "ᶐ", "ᶑ", "ᶒ", "ᶓ", "ᶔ", "ᶕ",
    "ᶖ", "ᶗ", "ᶘ", "ᶙ", "ᶚ", "ẖ", "ẗ", "ẘ", "ẙ", "ẚ", "ẛ", "ẜ", "ẝ", "ẟ",
    "\\u1f50", "\\u1f52", "\\u1f54", "\\u1f56", "ᾲ", "ᾴ", "ᾶ", "ᾷ", "ι", "ῂ",
    "ῄ", "ῆ", "ῇ", "ῒ", "ΐ", "ῖ", "ῗ", "ῢ", "ΰ", "ῤ", "ῦ", "ῧ", "ῲ", "ῴ", "ῶ",
    "ῷ", "\\u2102", "\\u2107", "\\u210a", "\\u210b", "\\u210c", "\\u210d",
    "\\u210e", "\\u210f", "\\u2110", "\\u2111", "\\u2112", "\\u2113",
    "\\u2115", "\\u2119", "\\u211a", "\\u211b", "\\u211c", "\\u211d",
    "\\u2124", "\\u2128", "\\u212c", "\\u212d", "\\u212f", "\\u2130",
    "\\u2131", "\\u2133", "\\u2134", "\\u2139", "\\u213c", "\\u213d",
    "\\u213e", "\\u213f", "\\u2145", "\\u2146", "\\u2147", "\\u2148",
    "\\u2149", "\\u2c71", "\\u2c74", "\\u2c77", "\\u2c78", "\\u2c79",
    "\\u2c7a", "\\u2c7b", "ⳤ", "\\ua730", "\\ua731", "\\ua771", "\\ua772",
    "\\ua773", "\\ua774", "\\ua775", "\\ua776", "\\ua777", "\\ua778", "ꞎ",
    "ꞕ", "ꞯ", "ꟓ", "ꟕ", "ꟺ", "\\uab30", "\\uab31", "\\uab32", "\\uab33",
    "\\uab34", "\\uab35", "\\uab36", "\\uab37", "\\uab38", "\\uab39",
    "\\uab3a", "\\uab3b", "\\uab3c", "\\uab3d", "\\uab3e", "\\uab3f",
    "\\uab40", "\\uab41", "\\uab42", "\\uab43", "\\uab44", "\\uab45",
    "\\uab46", "\\uab47", "\\uab48", "\\uab49", "\\uab4a", "\\uab4b",
    "\\uab4c", "\\uab4d", "\\uab4e", "\\uab4f", "\\uab50", "\\uab51",
    "\\uab52", "\\uab54", "\\uab55", "\\uab56", "\\uab57", "\\uab58",
    "\\uab59", "\\uab5a", "\\uab60", "\\uab61", "\\uab62", "\\uab63",
    "\\uab64", "\\uab65", "\\uab66", "\\uab67", "\\uab68", "\\ufb00",
    "\\ufb01", "\\ufb02", "\\ufb03", "\\ufb04", "\\ufb05", "\\ufb06",
    "\\ufb13", "\\ufb14", "\\ufb15", "\\ufb16", "\\ufb17" }

\* the characters str.lower() looks through when it decides how to write a
\* capital sigma
CaseIgnorable ==
  { "'", ".", ":", "^", "\\u0060", "¨", "­", "¯", "´", "·", "¸", "ʰ", "ʱ",
    "ʲ", "ʳ", "ʴ", "ʵ", "ʶ", "ʷ", "ʸ", "ʹ", "ʺ", "ʻ", "ʼ", "ʽ", "ʾ", "ʿ", "ˀ",
    "ˁ", "˂", "˃", "˄", "˅", "ˆ", "ˇ", "ˈ", "ˉ", "ˊ", "ˋ", "ˌ", "ˍ", "ˎ", "ˏ",
    "ː", "ˑ", "˒", "˓", "˔", "˕", "˖", "˗", "˘", "˙", "˚", "˛", "˜", "˝", "˞",
    "˟", "ˠ", "ˡ", "ˢ", "ˣ", "ˤ", "˥", "˦", "˧", "˨", "˩", "˪", "˫", "ˬ", "˭",
    "ˮ", "˯", "˰", "˱", "˲", "˳", "˴", "˵", "˶", "˷", "˸", "˹", "˺", "˻", "˼",
    "˽", "˾", "˿", "\\u0300", "\\u0301", "\\u0302", "\\u0303", "\\u0304",
    "\\u0305", "\\u0306", "\\u0307", "\\u0308", "\\u0309", "\\u030a",
    "\\u030b", "\\u030c", "\\u030d", "\\u030e", "\\u030f", "\\u0310",
    "\\u0311", "\\u0312", "\\u0313", "\\u0314", "\\u0315", "\\u0316",
    "\\u0317", "\\u0318", "\\u0319", "\\u031a", "\\u031b", "\\u031c",
    "\\u031d", "\\u031e", "\\u031f", "\\u0320", "\\u0321", "\\u0322",
    "\\u0323", "\\u0324", "\\u0325", "\\u0326", "\\u0327", "\\u0328",
    "\\u0329", "\\u032a", "\\u032b", "\\u032c", "\\u032d", "\\u032e",
    "\\u032f", "\\u0330", "\\u0331", "\\u0332", "\\u0333", "\\u0334",
    "\\u0335", "\\u0336", "\\u0337", "\\u0338", "\\u0339", "\\u033a",
    "\\u033b", "\\u033c", "\\u033d", "\\u033e", "\\u033f", "\\u0340",
    "\\u0341", "\\u0342", "\\u0343", "\\u0344", "\\u0345", "\\u0346",
    "\\u0347", "\\u0348", "\\u0349", "\\u034a", "\\u034b", "\\u034c",
    "\\u034d", "\\u034e", "\\u034f", "\\u0350", "\\u0351", "\\u0352",
    "\\u0353", "\\u0354", "\\u0355", "\\u0356", "\\u0357", "\\u0358",
    "\\u0359", "\\u035a", "\\u035b", "\\u035c", "\\u035d", "\\u035e",
    "\\u035f", "\\u0360", "\\u0361", "\\u0362", "\\u0363", "\\u0364",
    "\\u0365", "\\u0366", "\\u0367", "\\u0368", "\\u0369", "\\u036a",
    "\\u036b", "\\u036c", "\\u036d", "\\u036e", "\\u036f", "\\u0374",
    "\\u0375", "\\u037a", "΄", "΅", "·", "҃", "҄", "҅", "҆", "҇", "҈", "҉",
    "\\u0559", "\\u055f", "֑", "֒", "֓", "֔", "֕", "֖", "֗", "֘", "֙", "֚",
    "֛", "֜", "֝", "֞", "֟", "֠", "֡", "֢", "֣", "֤", "֥", "֦", "֧", "֨", "֩",
    "֪", "֫", "֬", "֭", "֮", "֯", "ְ", "ֱ", "ֲ", "ֳ", "ִ", "ֵ", "ֶ", "ַ", "ָ",
    "ֹ", "ֺ", "ֻ", "ּ", "ֽ", "ֿ", "ׁ", "ׂ", "ׄ", "ׅ", "ׇ", "״", "\\u0600",
    "\\u0601", "\\u0602", "\\u0603", "\\u0604", "\\u0605", "\\u0610",
    "\\u0611", "\\u0612", "\\u0613", "\\u0614", "\\u0615", "\\u0616",
    "\\u0617", "\\u0618", "\\u0619", "\\u061a", "\\u061c", "\\u0640",
    "\\u064b", "\\u064c", "\\u064d", "\\u064e", "\\u064f", "\\u0650",
    "\\u0651", "\\u0652", "\\u0653", "\\u0654", "\\u0655", "\\u0656",
    "\\u0657", "\\u0658", "\\u0659", "\\u065a", "\\u065b", "\\u065c",
    "\\u065d", "\\u065e", "\\u065f", "\\u0670", "ۖ", "ۗ", "ۘ", "ۙ", "ۚ", "ۛ",
    "ۜ", "۝", "۟", "۠", "ۡ", "ۢ", "ۣ", "ۤ", "ۥ", "ۦ", "ۧ", "ۨ", "۪", "۫", "۬",
    "ۭ", "\\u070f", "\\u0711", "\\u0730", "\\u0731", "\\u0732", "\\u0733",
    "\\u0734", "\\u0735", "\\u0736", "\\u0737", "\\u0738", "\\u0739",
    "\\u073a", "\\u073b", "\\u073c", "\\u073d", "\\u073e", "\\u073f",
    "\\u0740", "\\u0741", "\\u0742", "\\u0743", "\\u0744", "\\u0745",
    "\\u0746", "\\u0747", "\\u0748", "\\u0749", "\\u074a", "ަ", "ާ", "ި", "ީ",
    "ު", "ޫ", "ެ", "ޭ", "ޮ", "ޯ", "ް", "߫", "߬", "߭", "߮", "߯", "߰", "߱", "߲",
    "߳", "ߴ", "ߵ", "ߺ", "߽", "\\u0816", "\\u0817", "\\u0818", "\\u0819",
    "\\u081a", "\\u081b", "\\u081c", "\\u081d", "\\u081e", "\\u081f",
    "\\u0820", "\\u0821", "\\u0822", "\\u0823", "\\u0824", "\\u0825",
    "\\u0826", "\\u0827", "\\u0828", "\\u0829", "\\u082a", "\\u082b",
    "\\u082c", "\\u082d", "\\u0859", "\\u085a", "\\u085b", "࢈", "࢐", "࢑", "࢘",
    "࢙", "࢚", "࢛", "࢜", "࢝", "࢞", "࢟", "ࣉ", "࣊", "࣋", "࣌", "࣍", "࣎", "࣏", "࣐",
    "࣑", "࣒", "࣓", "ࣔ", "ࣕ", "ࣖ", "ࣗ", "ࣘ", "ࣙ", "ࣚ", "ࣛ", "ࣜ", "ࣝ", "ࣞ", "ࣟ",
    "࣠", "࣡", "࣢", "ࣣ", "ࣤ", "ࣥ", "ࣦ", "ࣧ", "ࣨ", "ࣩ", "࣪", "࣫", "࣬", "࣭", "࣮",
    "࣯", "ࣰ", "ࣱ", "ࣲ", "ࣳ", "ࣴ", "ࣵ", "ࣶ", "ࣷ", "ࣸ", "ࣹ", "ࣺ", "ࣻ", "ࣼ", "ࣽ",
    "ࣾ", "ࣿ", "\\u0900", "\\u0901", "\\u0902", "\\u093a", "\\u093c",
    "\\u0941", "\\u0942", "\\u0943", "\\u0944", "\\u0945", "\\u0946",
    "\\u0947", "\\u0948", "\\u094d", "\\u0951", "\\u0952", "\\u0953",
    "\\u0954", "\\u0955", "\\u0956", "\\u0957", "\\u0962", "\\u0963",
    "\\u0971", "ঁ", "়", "ু", "ূ", "ৃ", "ৄ", "্", "ৢ", "ৣ", "৾", "\\u0a01",
    "\\u0a02", "\\u0a3c", "\\u0a41", "\\u0a42", "\\u0a47", "\\u0a48",
    "\\u0a4b", "\\u0a4c", "\\u0a4d", "\\u0a51", "\\u0a70", "\\u0a71",
    "\\u0a75", "ઁ", "ં", "઼", "ુ", "ૂ", "ૃ", "ૄ", "ૅ", "ે", "ૈ", "્", "ૢ",
    "ૣ", "ૺ", "ૻ", "ૼ", "૽", "૾", "૿", "\\u0b01", "\\u0b3c", "\\u0b3f",
    "\\u0b41", "\\u0b42", "\\u0b43", "\\u0b44", "\\u0b4d", "\\u0b55",
    "\\u0b56", "\\u0b62", "\\u0b63", "ஂ", "ீ", "்", "\\u0c00", "\\u0c04",
    "\\u0c3c", "\\u0c3e", "\\u0c3f", "\\u0c40", "\\u0c46", "\\u0c47",
    "\\u0c48", "\\u0c4a", "\\u0c4b", "\\u0c4c", "\\u0c4d", "\\u0c55",
    "\\u0c56", "\\u0c62", "\\u0c63", "ಁ", "಼", "ಿ", "ೆ", "ೌ", "್", "ೢ", "ೣ",
    "\\u0d00", "\\u0d01", "\\u0d3b", "\\u0d3c", "\\u0d41", "\\u0d42",
    "\\u0d43", "\\u0d44", "\\u0d4d", "\\u0d62", "\\u0d63", "ඁ", "්", "ි", "ී",
    "ු", "ූ", "\\u0e31", "\\u0e34", "\\u0e35", "\\u0e36", "\\u0e37",
    "\\u0e38", "\\u0e39", "\\u0e3a", "\\u0e46", "\\u0e47", "\\u0e48",
    "\\u0e49", "\\u0e4a", "\\u0e4b", "\\u0e4c", "\\u0e4d", "\\u0e4e", "ັ",
    "ິ", "ີ", "ຶ", "ື", "ຸ", "ູ", "຺", "ົ", "ຼ", "ໆ", "່", "້", "໊", "໋", "໌",
    "ໍ", "\\u0f18", "\\u0f19", "\\u0f35", "\\u0f37", "\\u0f39", "\\u0f71",
    "\\u0f72", "\\u0f73", "\\u0f74", "\\u0f75", "\\u0f76", "\\u0f77",
    "\\u0f78", "\\u0f79", "\\u0f7a", "\\u0f7b", "\\u0f7c", "\\u0f7d",
    "\\u0f7e", "ྀ", "ཱྀ", "ྂ", "ྃ", "྄", "྆", "྇", "ྍ", "ྎ", "ྏ", "ྐ", "ྑ",
    "ྒ", "ྒྷ", "ྔ", "ྕ", "ྖ", "ྗ", "ྙ", "ྚ", "ྛ", "ྜ", "ྜྷ", "ྞ", "ྟ", "ྠ", "ྡ",
    "ྡྷ", "ྣ", "ྤ", "ྥ", "ྦ", "ྦྷ", "ྨ", "ྩ", "ྪ", "ྫ", "ྫྷ", "ྭ", "ྮ", "ྯ", "ྰ",
    "ྱ", "ྲ", "ླ", "ྴ", "ྵ", "ྶ", "ྷ", "ྸ", "ྐྵ", "ྺ", "ྻ", "ྼ", "࿆",
    "\\u102d", "\\u102e", "\\u102f", "\\u1030", "\\u1032", "\\u1033",
    "\\u1034", "\\u1035", "\\u1036", "\\u1037", "\\u1039", "\\u103a",
    "\\u103d", "\\u103e", "\\u1058", "\\u1059", "\\u105e", "\\u105f",
    "\\u1060", "\\u1071", "\\u1072", "\\u1073", "\\u1074", "ႂ", "ႅ", "ႆ", "ႍ",
    "ႝ", "ჼ", "\\u135d", "\\u135e", "\\u135f", "\\u1712", "\\u1713",
    "\\u1714", "\\u1732", "\\u1733", "\\u1752", "\\u1753", "\\u1772",
    "\\u1773", "឴", "឵", "ិ", "ី", "ឹ", "ឺ", "ុ", "ូ", "ួ", "ំ", "៉", "៊",
    "់", "៌", "៍", "៎", "៏", "័", "៑", "្", "៓", "ៗ", "៝", "\\u180b",
    "\\u180c", "\\u180d", "\\u180e", "\\u180f", "\\u1843", "ᢅ", "ᢆ", "ᢩ",
    "\\u1920", "\\u1921", "\\u1922", "\\u1927", "\\u1928", "\\u1932",
    "\\u1939", "\\u193a", "\\u193b", "\\u1a17", "\\u1a18", "\\u1a1b",
    "\\u1a56", "\\u1a58", "\\u1a59", "\\u1a5a", "\\u1a5b", "\\u1a5c",
    "\\u1a5d", "\\u1a5e", "\\u1a60", "\\u1a62", "\\u1a65", "\\u1a66",
    "\\u1a67", "\\u1a68", "\\u1a69", "\\u1a6a", "\\u1a6b", "\\u1a6c",
    "\\u1a73", "\\u1a74", "\\u1a75", "\\u1a76", "\\u1a77", "\\u1a78",
    "\\u1a79", "\\u1a7a", "\\u1a7b", "\\u1a7c", "\\u1a7f", "ᪧ", "᪰", "᪱", "᪲",
    "᪳", "᪴", "᪵", "᪶", "᪷", "᪸", "᪹", "᪺", "᪻", "᪼", "᪽", "᪾", "ᪿ", "ᫀ", "᫁",
    "᫂", "᫃", "᫄", "᫅", "᫆", "᫇", "᫈", "᫉", "᫊", "᫋", "ᫌ", "ᫍ", "ᫎ",
    "\\u1b00", "\\u1b01", "\\u1b02", "\\u1b03", "\\u1b34", "\\u1b36",
    "\\u1b37", "\\u1b38", "\\u1b39", "\\u1b3a", "\\u1b3c", "\\u1b42",
    "\\u1b6b", "\\u1b6c", "\\u1b6d", "\\u1b6e", "\\u1b6f", "\\u1b70",
    "\\u1b71", "\\u1b72", "\\u1b73", "ᮀ", "ᮁ", "ᮢ", "ᮣ", "ᮤ", "ᮥ", "ᮨ", "ᮩ",
    "᮫", "ᮬ", "ᮭ", "᯦", "ᯨ", "ᯩ", "ᯭ", "ᯯ", "ᯰ", "ᯱ", "\\u1c2c", "\\u1c2d",
    "\\u1c2e", "\\u1c2f", "\\u1c30", "\\u1c31", "\\u1c32", "\\u1c33",
    "\\u1c36", "\\u1c37", "\\u1c78", "\\u1c79", "\\u1c7a", "\\u1c7b",
    "\\u1c7c", "\\u1c7d", "᳐", "᳑", "᳒", "᳔", "᳕", "᳖", "᳗", "᳘", "᳙", "᳚",
    "᳛", "᳜", "᳝", "᳞", "᳟", "᳠", "᳢", "᳣", "᳤", "᳥", "᳦", "᳧", "᳨", "᳭", "᳴",
    "᳸", "᳹", "\\u1d2c", "\\u1d2d", "\\u1d2e", "\\u1d2f", "\\u1d30",
    "\\u1d31", "\\u1d32", "\\u1d33", "\\u1d34", "\\u1d35", "\\u1d36",
    "\\u1d37", "\\u1d38", "\\u1d39", "\\u1d3a", "\\u1d3b", "\\u1d3c",
    "\\u1d3d", "\\u1d3e", "\\u1d3f", "\\u1d40", "\\u1d41", "\\u1d42",
    "\\u1d43", "\\u1d44", "\\u1d45", "\\u1d46", "\\u1d47", "\\u1d48",
    "\\u1d49", "\\u1d4a", "\\u1d4b", "\\u1d4c", "\\u1d4d", "\\u1d4e",
    "\\u1d4f", "\\u1d50", "\\u1d51", "\\u1d52", "\\u1d53", "\\u1d54",
    "\\u1d55", "\\u1d56", "\\u1d57", "\\u1d58", "\\u1d59", "\\u1d5a",
    "\\u1d5b", "\\u1d5c", "\\u1d5d", "\\u1d5e", "\\u1d5f", "\\u1d60",
    "\\u1d61", "\\u1d62", "\\u1d63", "\\u1d64", "\\u1d65", "\\u1d66",
    "\\u1d67", "\\u1d68", "\\u1d69", "\\u1d6a", "\\u1d78", "ᶛ", "ᶜ", "ᶝ", "ᶞ",
    "ᶟ", "ᶠ", "ᶡ", "ᶢ", "ᶣ", "ᶤ", "ᶥ", "ᶦ", "ᶧ", "ᶨ", "ᶩ", "ᶪ", "ᶫ", "ᶬ", "ᶭ",
    "ᶮ", "ᶯ", "ᶰ", "ᶱ", "ᶲ", "ᶳ", "ᶴ", "ᶵ", "ᶶ", "ᶷ", "ᶸ", "ᶹ", "ᶺ", "ᶻ", "ᶼ",
    "ᶽ", "ᶾ", "ᶿ", "᷀", "᷁", "᷂", "᷃", "᷄", "᷅", "᷆", "᷇", "᷈", "᷉", "᷊", "᷋",
    "᷌", "᷍", "᷎", "᷏", "᷐", "᷑", "᷒", "ᷓ", "ᷔ", "ᷕ", "ᷖ", "ᷗ", "ᷘ", "ᷙ", "ᷚ",
    "ᷛ", "ᷜ", "ᷝ", "ᷞ", "ᷟ", "ᷠ", "ᷡ", "ᷢ", "ᷣ", "ᷤ", "ᷥ", "ᷦ", "ᷧ", "ᷨ", "ᷩ",
    "ᷪ", "ᷫ", "ᷬ", "ᷭ", "ᷮ", "ᷯ", "ᷰ", "ᷱ", "ᷲ", "ᷳ", "ᷴ", "᷵", "᷶", "᷷", "᷸",
    "᷹", "᷺", "᷻", "᷼", "᷽", "᷾", "᷿", "᾽", "᾿", "῀", "῁", "῍", "῎", "῏", "῝",
    "῞", "῟", "῭", "΅", "`", "´", "῾", "\\u200b", "\\u200c", "\\u200d",
    "\\u200e", "\\u200f", "\\u2018", "\\u2019", "\\u2024", "\\u2027",
    "\\u202a", "\\u202b", "\\u202c", "\\u202d", "\\u202e", "\\u2060",
    "\\u2061", "\\u2062", "\\u2063", "\\u2064", "\\u2066", "\\u2067",
    "\\u2068", "\\u2069", "\\u206a", "\\u206b", "\\u206c", "\\u206d",
    "\\u206e", "\\u206f", "\\u2071", "\\u207f", "ₐ", "ₑ", "ₒ", "ₓ", "ₔ", "ₕ",
    "ₖ", "ₗ", "ₘ", "ₙ", "ₚ", "ₛ", "ₜ", "⃐", "⃑", "⃒", "⃓", "⃔", "⃕", "⃖", "⃗",
    "⃘", "⃙", "⃚", "⃛", "⃜", "⃝", "⃞", "⃟", "⃠", "⃡", "⃢", "⃣", "⃤", "⃥", "⃦",
    "⃧", "⃨", "⃩", "⃪", "⃫", "⃬", "⃭", "⃮", "⃯", "⃰", "\\u2c7c", "\\u2c7d",
    "⳯", "⳰", "⳱", "\\u2d6f", "\\u2d7f", "ⷠ", "ⷡ", "ⷢ", "ⷣ", "ⷤ", "ⷥ", "ⷦ",
    "ⷧ", "ⷨ", "ⷩ", "ⷪ", "ⷫ", "ⷬ", "ⷭ", "ⷮ", "ⷯ", "ⷰ", "ⷱ", "ⷲ", "ⷳ", "ⷴ", "ⷵ",
    "ⷶ", "ⷷ", "ⷸ", "ⷹ", "ⷺ", "ⷻ", "ⷼ", "ⷽ", "ⷾ", "ⷿ", "\\u2e2f", "\\u3005",
    "\\u302a", "\\u302b", "\\u302c", "\\u302d", "\\u3031", "\\u3032",
    "\\u3033", "\\u3034", "\\u3035", "\\u303b", "゙", "゚", "゛", "゜", "ゝ", "ゞ",
    "ー", "ヽ", "ヾ", "\\ua015", "ꓸ", "ꓹ", "ꓺ", "ꓻ", "ꓼ", "ꓽ", "\\ua60c",
    "\\ua66f", "\\ua670", "\\ua671", "\\ua672", "\\ua674", "\\ua675",
    "\\ua676", "\\ua677", "\\ua678", "\\ua679", "\\ua67a", "\\ua67b",
    "\\ua67c", "\\ua67d", "\\ua67f", "ꚜ", "ꚝ", "ꚞ", "ꚟ", "꛰", "꛱", "\\ua700",
    "\\ua701", "\\ua702", "\\ua703", "\\ua704", "\\ua705", "\\ua706",
    "\\ua707", "\\ua708", "\\ua709", "\\ua70a", "\\ua70b", "\\ua70c",
    "\\ua70d", "\\ua70e", "\\ua70f", "\\ua710", "\\ua711", "\\ua712",
    "\\ua713", "\\ua714", "\\ua715", "\\ua716", "\\ua717", "\\ua718",
    "\\ua719", "\\ua71a", "\\ua71b", "\\ua71c", "\\ua71d", "\\ua71e",
    "\\ua71f", "\\ua720", "\\ua721", "\\ua770", "ꞈ", "꞉", "꞊", "ꟲ", "ꟳ", "ꟴ",
    "ꟸ", "ꟹ", "\\ua802", "\\ua806", "\\ua80b", "\\ua825", "\\ua826",
    "\\ua82c", "꣄", "ꣅ", "꣠", "꣡", "꣢", "꣣", "꣤", "꣥", "꣦", "꣧", "꣨", "꣩",
    "꣪", "꣫", "꣬", "꣭", "꣮", "꣯", "꣰", "꣱", "ꣿ", "\\ua926", "\\ua927",
    "\\ua928", "\\ua929", "\\ua92a", "\\ua92b", "\\ua92c", "\\ua92d",
    "\\ua947", "\\ua948", "\\ua949", "\\ua94a", "\\ua94b", "\\ua94c",
    "\\ua94d", "\\ua94e", "\\ua94f", "\\ua950", "\\ua951", "ꦀ", "ꦁ", "ꦂ", "꦳",
    "ꦶ", "ꦷ", "ꦸ", "ꦹ", "ꦼ", "ꦽ", "ꧏ", "ꧥ", "ꧦ", "\\uaa29", "\\uaa2a",
    "\\uaa2b", "\\uaa2c", "\\uaa2d", "\\uaa2e", "\\uaa31", "\\uaa32",
    "\\uaa35", "\\uaa36", "\\uaa43", "\\uaa4c", "\\uaa70", "\\uaa7c", "ꪰ",
    "ꪲ", "ꪳ", "ꪴ", "ꪷ", "ꪸ", "ꪾ", "꪿", "꫁", "ꫝ", "ꫬ", "ꫭ", "ꫳ", "ꫴ", "꫶",
    "\\uab5b", "\\uab5c", "\\uab5d", "\\uab5e", "\\uab5f", "\\uab69",
    "\\uab6a", "\\uab6b", "ꯥ", "ꯨ", "꯭", "\\ufb1e", "﮲", "﮳", "﮴", "﮵", "﮶",
    "﮷", "﮸", "﮹", "﮺", "﮻", "﮼", "﮽", "﮾", "﮿", "﯀", "﯁", "﯂", "\\ufe00",
    "\\ufe01", "\\ufe02", "\\ufe03", "\\ufe04", "\\ufe05", "\\ufe06",
    "\\ufe07", "\\ufe08", "\\ufe09", "\\ufe0a", "\\ufe0b", "\\ufe0c",
    "\\ufe0d", "\\ufe0e", "\\ufe0f", "\\ufe13", "\\ufe20", "\\ufe21",
    "\\ufe22", "\\ufe23", "\\ufe24", "\\ufe25", "\\ufe26", "\\ufe27",
    "\\ufe28", "\\ufe29", "\\ufe2a", "\\ufe2b", "\\ufe2c", "\\ufe2d",
    "\\ufe2e", "\\ufe2f", "\\ufe52", "\\ufe55", "﻿", "\\uff07", "\\uff0e",
    "\\uff1a", "\\uff3e", "\\uff40", "\\uff70", "ﾞ", "ﾟ", "￣", "￹", "￺", "￻" }

\* the letters it stops at
Cased ==
  {Capitals[i] : i \in DOMAIN Capitals} \cup {Smalls[i] : i \in DOMAIN Smalls}
    \cup {"\\u0130"} \cup OtherCased

\* a capital sigma is final when a letter comes before it and none after it
final_sigma(s, i) ==
  /\ \E j \in 1..(i - 1) :
       s[j] \in Cased /\ \A k \in (j + 1)..(i - 1) : s[k] \in CaseIgnorable
  /\ ~ \E j \in (i + 1)..Len(s) :
         s[j] \in Cased /\ \A k \in (i + 1)..(j - 1) : s[k] \in CaseIgnorable

\* what str.lower() writes for the character at position i of s: a final
\* sigma, the two characters of the dotted capital I, the lower-case
\* character of a capital, or the character itself
lower_at(s, i) ==
  IF s[i] = "Σ" /\ final_sigma(s, i) THEN <<"ς">>
  ELSE IF s[i] = "\\u0130" THEN <<"i", "\\u0307">>
  ELSE IF s[i] \in DOMAIN small_of THEN <<small_of[s[i]]>>
  ELSE <<s[i]>>

RECURSIVE lower_from(_, _)
lower_from(s, i) ==
  IF i > Len(s) THEN <<>> ELSE lower_at(s, i) \o lower_from(s, i + 1)

\* item_name.lower()
Lower(s) == lower_from(s, 1)

\* str.lower() on the string of one character
LowerChar(c) == Str(Lower(<<c>>))

\* ", ".join(list)
RECURSIVE Join(_)
Join(l) ==
  IF l = <<>> THEN ""
  ELSE IF Len(l) = 1 THEN l[1]
  ELSE l[1] \o ", " \o Join(Tail(l))

\* f"ORD-{order_counter}"
OrderId(n) == "ORD-" \o ToString(n)

\* -------------------------------------------------- binary64 arithmetic
\* A float is [cents, resid]: the value (cents * 2^52 + resid) / (100 * 2^52).
MaxExp == 7          \* values stay below 2^(MaxExp+1) dollars

Pow2(e) == 2^e

\* 2^n mod m
RECURSIVE Pow2Mod(_, _)
Pow2Mod(n, m) == IF n = 0 THEN 1 % m ELSE (2 * Pow2Mod(n - 1, m)) % m

Float(c, r) == [cents |-> c, resid |-> r]
Zero == Float(0, 0)                       \* the literal 0.0

IsNegative(x) == x.cents < 0 \/ (x.cents = 0 /\ x.resid < 0)
Neg(x) == Float(-x.cents, -x.resid)

\* 2^52 mod (100 * 2^(e+1)) for each exponent e
TwoTo52Mod == [e \in 1..MaxExp |-> Pow2Mod(52, 100 * Pow2(e + 1))]

\* binary exponent of a non-negative value: the largest e in 1..MaxExp with
\* 2^e <= value, or 0 when the value is below 2 (then the value is exact).
RECURSIVE ExpFrom(_, _)
ExpFrom(x, k) ==
  IF k = 0 THEN 0
  ELSE IF x.cents > 100 * Pow2(k) \/ (x.cents = 100 * Pow2(k) /\ x.resid >= 0)
       THEN k
       ELSE ExpFrom(x, k - 1)
Exponent(x) == ExpFrom(x, MaxExp)

\* round-to-nearest, ties-to-even, of a non-negative exact value to 53 bits
RoundPos(x) ==
  LET e == Exponent(x) IN
  IF e = 0 THEN x
  ELSE
    LET m    == 100 * Pow2(e + 1)
        low2 == (((x.cents % m) * TwoTo52Mod[e] + x.resid) % m) \div 100
        low  == low2 % Pow2(e)
        odd  == low2 \div Pow2(e)
        half == Pow2(e - 1)
        up   == low > half \/ (low = half /\ odd = 1)
    IN Float(x.cents, x.resid - 100 * low + (IF up THEN 100 * Pow2(e) ELSE 0))

RoundFloat(x) == IF IsNegative(x) THEN Neg(RoundPos(Neg(x))) ELSE RoundPos(x)

\* float + float
FAdd(x, y) == RoundFloat(Float(x.cents + y.cents, x.resid + y.resid))
\* float * int
FMulInt(x, q) == RoundFloat(Float(x.cents * q, x.resid * q))

\* two decimal digits
Pad2(n) == IF n < 10 THEN "0" \o ToString(n) ELSE ToString(n)
Abs(n) == IF n < 0 THEN 0 - n ELSE n

\* f"{x:.2f}"
Fmt2(x) ==
  (IF IsNegative(x) THEN "-" ELSE "")
    \o ToString(Abs(x.cents) \div 100) \o "." \o Pad2(Abs(x.cents) % 100)

\* ------------------------------------------------------------ price table
\* price_lookup of add_item_to_order; each literal is the binary64 nearest
\* to it (e.g. 12.99 is stored as 12.99 + 96/(100*2^52), 1.99 as
\* 1.99 - 4/(100*2^52)).
price_lookup ==
  [k \in {"margherita", "pepperoni", "vegetarian", "hawaiian", "supreme",
          "garlic bread", "caesar salad", "chicken wings", "soda", "water",
          "beer"} |->
     CASE k = "margherita"    -> Float(1099, 96)
       [] k = "pepperoni"     -> Float(1299, 96)
       [] k = "vegetarian"    -> Float(1199, 96)
       [] k = "hawaiian"      -> Float(1399, 96)
       [] k = "supreme"       -> Float(1499, 96)
       [] k = "garlic bread"  -> Float(499, 96)
       [] k = "caesar salad"  -> Float(599, 96)
       [] k = "chicken wings" -> Float(899, 96)
       [] k = "soda"          -> Float(199, -4)
       [] k = "water"         -> Float(149, -4)
       [] k = "beer"          -> Float(599, 96)]

\* ------------------------------------------------------------ OrderPlugin
VARIABLES
  current_orders,   \* self.current_orders: order id -> [customer_name, items, total]
  order_counter,    \* self.order_counter
  last,             \* the latest call: its name, arguments and returned
                    \* message, and the table and counter it started from
  issued,           \* the create_order calls so far, in order: the id and
                    \* counter value assigned and the name given
  calls,            \* thread -> the call of the plugin it is executing, its
                    \* position in the method and its local variables
  active_threads,   \* pizza_api_server.active_threads: thread id -> thread
  requests          \* request number -> the HTTP request of that number: its
                    \* handler's position and locals, the events streamed
                    \* and the answer given

vars == <<current_orders, order_counter, last, issued, calls,
          active_threads, requests>>

\* the state of the api server, and the state of the plugin
serverVars == <<active_threads, requests>>
pluginVars == <<current_orders, order_counter, last, issued, calls>>

\* the empty dict {}
EmptyDict == [k \in {} |-> 0]

\* variant of Put: d[k] = v that drops the other keys (the dict is rebuilt, not updated)
PutAlone(d, k, v) == [x \in {k} |-> v]

\* d[k] = v on a dict
Put(d, k, v) == [x \in DOMAIN d \cup {k} |-> IF x = k THEN v ELSE d[x]]

\* the outcome of one call: the table and counter afterwards, the message
Outcome(orders, counter, result) ==
  [orders |-> orders, counter |-> counter, result |-> result]

\* variant of new_order: an empty name is replaced by a default
new_order_guest(customer_name) ==
  [customer_name |-> IF customer_name = "" THEN "Guest" ELSE customer_name,
   items |-> <<>>, total |-> Zero]

\* the entry create_order stores
new_order(customer_name) ==
  [customer_name |-> customer_name, items |-> <<>>, total |-> Zero]

\* variant of create_order: the counter is not advanced, so the id of the
\* previous order is formatted again
create_order_same_id(orders, counter, customer_name) ==
  LET n        == IF counter = 0 THEN 1 ELSE counter
      order_id == OrderId(n)
  IN Outcome(Put(orders, order_id, new_order(customer_name)), n,
             [kind |-> "order_created", customer_name |-> customer_name,
              order_id |-> order_id])

\* OrderPlugin.create_order
create_order(orders, counter, customer_name) ==
  LET n        == counter + 1
      order_id == OrderId(n)
  IN Outcome(Put(orders, order_id, new_order(customer_name)), n,
             [kind |-> "order_created", customer_name |-> customer_name,
              order_id |-> order_id])

\* variant of AppendTimes: one append whatever the quantity
AppendOnce(items, item_name, quantity) == Append(items, item_name)

\* for _ in range(quantity): items.append(item_name)
RECURSIVE AppendTimes(_, _, _)
AppendTimes(items, item_name, quantity) ==
  IF quantity <= 0 THEN items
  ELSE AppendTimes(Append(items, item_name), item_name, quantity - 1)

\* variant of order_not_found: the missing order is created on the fly
order_not_found_creates(orders, counter, order_id) ==
  Outcome(Put(orders, order_id, new_order("")), counter,
          [kind |-> "order_not_found_create_first", order_id |-> order_id])

\* add_item_to_order, order_id not in self.current_orders
order_not_found(orders, counter, order_id) ==
  Outcome(orders, counter,
          [kind |-> "order_not_found_create_first", order_id |-> order_id])

\* variant of item_not_found: the entries are appended before the menu check
item_not_found_appends(orders, counter, order_id, item_name, quantity) ==
  Outcome(Put(orders, order_id,
              [orders[order_id] EXCEPT
                 !.items = AppendTimes(orders[order_id].items, item_name, quantity)]),
          counter,
          [kind |-> "item_not_found", item_name |-> Str(item_name)])

\* add_item_to_order, item_name_lower not in price_lookup
item_not_found(orders, counter, order_id, item_name, quantity) ==
  Outcome(orders, counter,
          [kind |-> "item_not_found", item_name |-> Str(item_name)])

\* add_item_to_order, the item is on the menu: the updated order entry
add_to_order(order, item_name, item_price, quantity) ==
  [order EXCEPT
     !.items = AppendTimes(order.items, item_name, quantity),
     !.total = FAdd(order.total, FMulInt(item_price, quantity))]

\* variant of add_item_to_order: the menu check precedes the order check
add_item_to_order_item_first(orders, counter, order_id, item_name, quantity) ==
  LET item_name_lower == Str(Lower(item_name)) IN
  IF item_name_lower \notin DOMAIN price_lookup
  THEN item_not_found(orders, counter, order_id, item_name, quantity)
  ELSE
    IF order_id \notin DOMAIN orders
    THEN order_not_found(orders, counter, order_id)
    ELSE
      LET item_price == price_lookup[item_name_lower]
          new_entry  == add_to_order(orders[order_id], item_name, item_price, quantity)
      IN Outcome(Put(orders, order_id, new_entry), counter,
                 [kind |-> "added", quantity |-> ToString(quantity),
                  item_name |-> Str(item_name), item_price |-> Fmt2(item_price),
                  order_id |-> order_id, total |-> Fmt2(new_entry.total)])

\* variant of add_item_to_order: the name is looked up as it is spelled
add_item_to_order_as_spelled(orders, counter, order_id, item_name, quantity) ==
  IF order_id \notin DOMAIN orders
  THEN order_not_found(orders, counter, order_id)
  ELSE
    LET item_name_exact == Str(item_name) IN
    IF item_name_exact \notin DOMAIN price_lookup
    THEN item_not_found(orders, counter, order_id, item_name, quantity)
    ELSE
      LET item_price == price_lookup[item_name_exact]
          new_entry  == add_to_order(orders[order_id], item_name, item_price, quantity)
      IN Outcome(Put(orders, order_id, new_entry), counter,
                 [kind |-> "added", quantity |-> ToString(quantity),
                  item_name |-> Str(item_name), item_price |-> Fmt2(item_price),
                  order_id |-> order_id, total |-> Fmt2(new_entry.total)])

\* OrderPlugin.add_item_to_order
add_item_to_order(orders, counter, order_id, item_name, quantity) ==
  IF order_id \notin DOMAIN orders
  THEN order_not_found(orders, counter, order_id)
  ELSE
    LET item_name_lower == Str(Lower(item_name)) IN
    IF item_name_lower \notin DOMAIN price_lookup
    THEN item_not_found(orders, counter, order_id, item_name, quantity)
    ELSE
      LET item_price == price_lookup[item_name_lower]
          new_entry  == add_to_order(orders[order_id], item_name, item_price, quantity)
      IN Outcome(Put(orders, order_id, new_entry), counter,
                 [kind |-> "added", quantity |-> ToString(quantity),
                  item_name |-> Str(item_name), item_price |-> Fmt2(item_price),
                  order_id |-> order_id, total |-> Fmt2(new_entry.total)])

\* variant of items_summary: every entry opens a pair of its own
RECURSIVE items_summary_no_merge(_)
items_summary_no_merge(items) ==
  IF items = <<>> THEN <<>>
  ELSE Append(items_summary_no_merge(SubSeq(items, 1, Len(items) - 1)),
              <<items[Len(items)], 1>>)

\* variant of items_summary: names are merged without regard to case
RECURSIVE items_summary_any_case(_)
items_summary_any_case(items) ==
  IF items = <<>> THEN <<>>
  ELSE
    LET item == items[Len(items)]
        rest == items_summary_any_case(SubSeq(items, 1, Len(items) - 1))
    IN IF \E i \in 1..Len(rest) : Lower(rest[i][1]) = Lower(item)
       THEN [i \in 1..Len(rest) |->
               IF Lower(rest[i][1]) = Lower(item)
               THEN <<rest[i][1], rest[i][2] + 1>> ELSE rest[i]]
       ELSE Append(rest, <<item, 1>>)

\* the dict items_summary built by the loop of get_order_status, as the
\* sequence of its (key, value) pairs in insertion order
RECURSIVE items_summary(_)
items_summary(items) ==
  IF items = <<>> THEN <<>>
  ELSE
    LET item == items[Len(items)]
        rest == items_summary(SubSeq(items, 1, Len(items) - 1))
    IN IF \E i \in 1..Len(rest) : rest[i][1] = item
       THEN [i \in 1..Len(rest) |->
               IF rest[i][1] = item THEN <<item, rest[i][2] + 1>> ELSE rest[i]]
       ELSE Append(rest, <<item, 1>>)

\* [f"{quantity}x {item}" for item, quantity in items_summary.items()]
items_list(items) ==
  LET s == items_summary(items)
  IN [i \in 1..Len(s) |-> ToString(s[i][2]) \o "x " \o Str(s[i][1])]

\* OrderPlugin.get_order_status
get_order_status(orders, counter, order_id) ==
  IF order_id \notin DOMAIN orders
  THEN Outcome(orders, counter,
               [kind |-> "order_not_found_check_id", order_id |-> order_id])
  ELSE
    LET order == orders[order_id]
    IN Outcome(orders, counter,
               [kind |-> "status", order_id |-> order_id,
                customer_name |-> order.customer_name,
                items_list |-> items_list(order.items),
                items |-> Join(items_list(order.items)),
                total |-> Fmt2(order.total)])

\* variant of complete_order: the completed order is moved out of the table
complete_order_removes(orders, counter, order_id) ==
  IF order_id \notin DOMAIN orders
  THEN Outcome(orders, counter,
               [kind |-> "order_not_found_check_id", order_id |-> order_id])
  ELSE
    LET order == orders[order_id]
    IN Outcome([x \in DOMAIN orders \ {order_id} |-> orders[x]], counter,
               [kind |-> "completed", customer_name |-> order.customer_name,
                order_id |-> order_id, total |-> Fmt2(order.total)])

\* OrderPlugin.complete_order
complete_order(orders, counter, order_id) ==
  IF order_id \notin DOMAIN orders
  THEN Outcome(orders, counter,
               [kind |-> "order_not_found_check_id", order_id |-> order_id])
  ELSE
    LET order == orders[order_id]
    IN Outcome(orders, counter,
               [kind |-> "completed", customer_name |-> order.customer_name,
                order_id |-> order_id, total |-> Fmt2(order.total)])

\* ---------------------------------------------------------------- actions
\* order ids a caller passes: the ids the bounded run can assign; one that
\* is not assigned yet is an unknown id
OrderIds == {OrderId(n) : n \in 1..MaxOrders}

NoCall == [op |-> "none"]

\* unit price in cents of an item name, 0 when it is not on the menu
PriceCents(item_name) ==
  LET key == Str(Lower(item_name))
  IN IF key \in DOMAIN price_lookup THEN price_lookup[key].cents ELSE 0

\* sum of the unit prices (cents) of the entries of an item list
RECURSIVE Worth(_)
Worth(items) ==
  IF items = <<>> THEN 0 ELSE PriceCents(Head(items)) + Worth(Tail(items))

RECURSIVE SumLen(_, _)
SumLen(orders, ids) ==
  IF ids = {} THEN 0
  ELSE LET id == CHOOSE x \in ids : TRUE
       IN Len(orders[id].items) + SumLen(orders, ids \ {id})

\* the part of the state space that is explored: an add_item_to_order that
\* changed order_id is followed up while the item lists hold at most
\* max_items entries and the order's total is at most MaxDebt below the
\* worth of its items
WithinBounds(out, order_id, max_items) ==
  out.result.kind = "added" =>
    /\ SumLen(out.orders, DOMAIN out.orders) <= max_items
    /\ out.orders[order_id].total.cents
         >= Worth(out.orders[order_id].items) - MaxDebt

\* the quantity of the call just before this add_item_to_order when that
\* call added the same item name to the same order at least once, else 0
RepeatOf(order_id, item_name) ==
  IF /\ last.op = "add_item_to_order"
     /\ last.result.kind = "added"
     /\ last.quantity >= 1
     /\ last.order_id = order_id
     /\ last.item_name = item_name
  THEN last.quantity
  ELSE 0

\* request numbers, in the order in which the requests arrive
Requests == 1..MaxRequests

\* a request that has not arrived yet
NotSent == [pc |-> "new"]

\* the api server right after start-up: active_threads = {}
ServerIdle ==
  /\ active_threads = EmptyDict
  /\ requests = [r \in Requests |-> NotSent]

\* the threads that may be inside the plugin at once
Threads == {"t1", "t2"}

\* a thread that is not inside a method of the plugin
Idle == [op |-> "idle", pc |-> "idle"]

Init ==
  /\ current_orders = EmptyDict
  /\ order_counter = 0
  /\ last = NoCall
  /\ issued = <<>>
  /\ calls = [t \in Threads |-> Idle]
  /\ ServerIdle

\* One call at a time: each action is a whole method, and binds out to the
\* outcome of the call (the set is a singleton).
CreateOrder(customer_name) ==
  \E out \in {create_order(current_orders, order_counter, customer_name)} :
    /\ order_counter < MaxOrders
    /\ current_orders' = out.orders
    /\ order_counter' = out.counter
    /\ last' = [op |-> "create_order", customer_name |-> customer_name,
                result |-> out.result,
                pre_orders |-> current_orders, pre_counter |-> order_counter]
    /\ issued' = Append(issued, [order_id |-> out.result.order_id,
                                 n |-> out.counter,
                                 customer_name |-> customer_name])
    /\ UNCHANGED <<calls, serverVars>>

AddItemToOrderUpTo(order_id, item_name, quantity, max_items) ==
  \E out \in {add_item_to_order(current_orders, order_counter,
                                order_id, item_name, quantity)} :
    /\ WithinBounds(out, order_id, max_items)
    /\ current_orders' = out.orders
    /\ order_counter' = out.counter
    /\ last' = [op |-> "add_item_to_order", order_id |-> order_id,
                item_name |-> item_name, quantity |-> quantity,
                repeat_of |-> RepeatOf(order_id, item_name),
                result |-> out.result,
                pre_orders |-> current_orders, pre_counter |-> order_counter]
    /\ UNCHANGED <<issued, calls, serverVars>>

AddItemToOrder(order_id, item_name, quantity) ==
  AddItemToOrderUpTo(order_id, item_name, quantity, MaxItems)

GetOrderStatus(order_id) ==
  \E out \in {get_order_status(current_orders, order_counter, order_id)} :
    /\ current_orders' = out.orders
    /\ order_counter' = out.counter
    /\ last' = [op |-> "get_order_status", order_id |-> order_id,
                result |-> out.result,
                pre_orders |-> current_orders, pre_counter |-> order_counter]
    /\ UNCHANGED <<issued, calls, serverVars>>

CompleteOrder(order_id) ==
  \E out \in {complete_order(current_orders, order_counter, order_id)} :
    /\ current_orders' = out.orders
    /\ order_counter' = out.counter
    /\ last' = [op |-> "complete_order", order_id |-> order_id,
                result |-> out.result,
                pre_orders |-> current_orders, pre_counter |-> order_counter]
    /\ UNCHANGED <<issued, calls, serverVars>>

Next ==
  \/ \E customer_name \in CustomerNames : CreateOrder(customer_name)
  \/ \E order_id \in OrderIds, item_name \in ItemNames, quantity \in Quantities :
       AddItemToOrder(order_id, item_name, quantity)
  \/ \E order_id \in OrderIds : GetOrderStatus(order_id)
  \/ \E order_id \in OrderIds : CompleteOrder(order_id)

Spec == Init /\ [][Next]_vars

\* The same calls, one at a time, with the item names of MenuItemNames and
\* item lists of up to MaxMenuItems entries
MenuNext ==
  \/ CreateOrder("")
  \/ \E order_id \in OrderIds, item_name \in MenuItemNames,
        quantity \in MenuQuantities :
       AddItemToOrderUpTo(order_id, item_name, quantity, MaxMenuItems)
  \/ \E order_id \in OrderIds : GetOrderStatus(order_id)

MenuSpec == Init /\ [][MenuNext]_vars

\* ------------------------------------------------ interleaved execution
\* Two threads inside the plugin at once. The methods take no lock, so a
\* thread can be preempted between any two accesses of self.order_counter
\* and self.current_orders: each action below is one such access together
\* with the local computation that follows it. Every thread makes one call,
\* started from a store that calls made one at a time have left.

\* stores left by create_order("Alice"), add_item_to_order("ORD-1",
\* "Pepperoni", 1) and create_order("") made one after the other
StartStores ==
  LET s0 == Outcome(EmptyDict, 0, NoCall)
      s1 == create_order(s0.orders, s0.counter, "Alice")
      s2 == add_item_to_order(s1.orders, s1.counter, OrderId(1),
                              <<"P","e","p","p","e","r","o","n","i">>, 1)
      s3 == create_order(s2.orders, s2.counter, "")
  IN {s0, s1, s2, s3}

\* the call of thread t moves to position pc with the locals in upd
Goto(t, pc, upd) ==
  calls' = [calls EXCEPT ![t] =
              [f \in DOMAIN calls[t] \cup DOMAIN upd \cup {"pc"} |->
                 IF f = "pc" THEN pc
                 ELSE IF f \in DOMAIN upd THEN upd[f] ELSE calls[t][f]]]

At(t, op, pc) == calls[t].op = op /\ calls[t].pc = pc

\* variant of write_total: the total is read again at the time of the write
write_total_atomic(orders, order_id, total_read, total_item_price) ==
  Put(orders, order_id,
      [orders[order_id] EXCEPT
         !.total = FAdd(orders[order_id].total, total_item_price)])

\* the store of `self.current_orders[order_id]["total"] += total_item_price`:
\* the sum of the total read before and the price is written back
write_total(orders, order_id, total_read, total_item_price) ==
  Put(orders, order_id,
      [orders[order_id] EXCEPT !.total = FAdd(total_read, total_item_price)])

ConcInit ==
  /\ \E s \in StartStores :
       /\ current_orders = s.orders
       /\ order_counter = s.counter
  /\ last = NoCall
  /\ issued = <<>>
  /\ calls = [t \in Threads |-> Idle]
  /\ ServerIdle

\* create_order, line 184: the load of self.order_counter
CreateReadCounter(t, customer_name) ==
  /\ calls[t] = Idle
  /\ calls' = [calls EXCEPT ![t] =
                 [op |-> "create_order", pc |-> "write_counter",
                  customer_name |-> customer_name,
                  counter_read |-> order_counter]]
  /\ UNCHANGED <<current_orders, order_counter, last, issued, serverVars>>

\* create_order, line 184: the store of the incremented counter
CreateWriteCounter(t) ==
  /\ At(t, "create_order", "write_counter")
  /\ order_counter' = calls[t].counter_read + 1
  /\ Goto(t, "format_id", <<>>)
  /\ UNCHANGED <<current_orders, last, issued, serverVars>>

\* create_order, line 185: the counter is read again to format the id
CreateFormatId(t) ==
  /\ At(t, "create_order", "format_id")
  /\ Goto(t, "store", [order_id |-> OrderId(order_counter), n |-> order_counter])
  /\ UNCHANGED <<current_orders, order_counter, last, issued, serverVars>>

\* create_order, lines 187-193: the entry is stored and the message returned
CreateStore(t) ==
  /\ At(t, "create_order", "store")
  /\ current_orders' = Put(current_orders, calls[t].order_id,
                           new_order(calls[t].customer_name))
  /\ issued' = Append(issued, [order_id |-> calls[t].order_id,
                               n |-> calls[t].n,
                               customer_name |-> calls[t].customer_name])
  /\ Goto(t, "done",
          [result |-> [kind |-> "order_created",
                       customer_name |-> calls[t].customer_name,
                       order_id |-> calls[t].order_id]])
  /\ UNCHANGED <<order_counter, last, serverVars>>

\* add_item_to_order, lines 217-228: the order check (the one read of the
\* shared table), the menu check, the price computation and the first test
\* of the loop: range(quantity) is empty for a quantity <= 0, and the
\* method goes on to the total without appending
AddLookup(t, order_id, item_name, quantity) ==
  /\ calls[t] = Idle
  /\ LET call == [op |-> "add_item_to_order", order_id |-> order_id,
                  item_name |-> item_name, quantity |-> quantity]
         item_name_lower == Str(Lower(item_name))
     IN IF order_id \notin DOMAIN current_orders
        THEN calls' = [calls EXCEPT ![t] =
               call @@ [pc |-> "done",
                        result |-> order_not_found(current_orders, order_counter,
                                                   order_id).result]]
        ELSE IF item_name_lower \notin DOMAIN price_lookup
        THEN calls' = [calls EXCEPT ![t] =
               call @@ [pc |-> "done",
                        result |-> item_not_found(current_orders, order_counter,
                                                  order_id, item_name,
                                                  quantity).result]]
        ELSE calls' = [calls EXCEPT ![t] =
               call @@ [pc |-> IF quantity >= 1 THEN "append" ELSE "read_total",
                        appended |-> 0,
                        item_price |-> price_lookup[item_name_lower],
                        total_item_price |->
                          FMulInt(price_lookup[item_name_lower], quantity)]]
  /\ UNCHANGED <<current_orders, order_counter, last, issued, serverVars>>

\* add_item_to_order, lines 228-229: one turn of the loop
AddAppend(t) ==
  /\ At(t, "add_item_to_order", "append")
  /\ LET order_id == calls[t].order_id
         order    == current_orders[order_id]
     IN current_orders' =
          Put(current_orders, order_id,
              [order EXCEPT !.items = Append(order.items, calls[t].item_name)])
  /\ Goto(t, IF calls[t].appended + 1 < calls[t].quantity
             THEN "append" ELSE "read_total",
          [appended |-> calls[t].appended + 1])
  /\ UNCHANGED <<order_counter, last, issued, serverVars>>

\* add_item_to_order, line 230: the load of the order's total
AddReadTotal(t) ==
  /\ At(t, "add_item_to_order", "read_total")
  /\ Goto(t, "write_total",
          [total_read |-> current_orders[calls[t].order_id].total])
  /\ UNCHANGED <<current_orders, order_counter, last, issued, serverVars>>

\* add_item_to_order, line 230: the store of the sum
AddWriteTotal(t) ==
  /\ At(t, "add_item_to_order", "write_total")
  /\ current_orders' = write_total(current_orders, calls[t].order_id,
                                   calls[t].total_read,
                                   calls[t].total_item_price)
  /\ Goto(t, "return", <<>>)
  /\ UNCHANGED <<order_counter, last, issued, serverVars>>

\* add_item_to_order, line 232: the total is read again for the message
AddReturn(t) ==
  /\ At(t, "add_item_to_order", "return")
  /\ Goto(t, "done",
          [result |-> [kind |-> "added",
                       quantity |-> ToString(calls[t].quantity),
                       item_name |-> Str(calls[t].item_name),
                       item_price |-> Fmt2(calls[t].item_price),
                       order_id |-> calls[t].order_id,
                       total |-> Fmt2(current_orders[calls[t].order_id].total)]])
  /\ UNCHANGED <<current_orders, order_counter, last, issued, serverVars>>

ConcNext ==
  \E t \in Threads :
    \/ \E customer_name \in CustomerNames : CreateReadCounter(t, customer_name)
    \/ CreateWriteCounter(t)
    \/ CreateFormatId(t)
    \/ CreateStore(t)
    \/ \E order_id \in OrderIds, item_name \in ItemNames,
          quantity \in Quantities :
         AddLookup(t, order_id, item_name, quantity)
    \/ AddAppend(t)
    \/ AddReadTotal(t)
    \/ AddWriteTotal(t)
    \/ AddReturn(t)

ConcSpec == ConcInit /\ [][ConcNext]_vars

\* ------------------------------------------------------------ api server
\* src/scripts/pizza_api_server.py: the dict active_threads and the
\* handlers process_message, stream_message and delete_thread. The handlers
\* are coroutines on one event loop: a handler runs alone from one await or
\* yield to the next, and each action below is one such stretch.
\* agent_system.get_response is the environment: it returns a response
\* (content and thread), returns nothing, or raises.

\* request.threadId as the client sends it: <<>> is None (or absent),
\* <<s>> is the string s; the empty string counts as absent for `or`
ThreadIdsSent == {<<>>, <<"">>, <<"thread-2">>}

\* str(response.content) of the responses the agent returns: 0, 3, 4 and
\* 7 words, with single and repeated blanks, a no-break space (the fourth
\* character of the third text), a newline and a form feed
Contents ==
  { <<" ">>,
    <<"a"," ","b"," ","c">>,
    <<" ","a"," "," ","b","\n","c","\f","d">>,
    <<"a"," ","b"," ","c"," ","d"," ","e"," ","f"," ","g"," ">> }

\* the texts of the responses whose content is not a str: a bytes object
\* holding the text (ASCII), or an object that str() turns into the text
OtherContents == {<<"a"," ","b"," ","c">>}

\* what get_response does: a response with its content (a str, bytes or
\* another object), None, an exception
AgentOutcomes ==
  {[kind |-> "response", content |-> c, type |-> "str"] : c \in Contents}
    \cup {[kind |-> "response", content |-> c, type |-> ty] :
            c \in OtherContents, ty \in {"bytes", "object"}}
    \cup {[kind |-> "none"], [kind |-> "raises"]}

\* the bytes that repr() writes as \xhh, and the two digits of each
Unprintable ==
  << "\\u0000", "", "", "", "", "", "", "", "", "", "\f", "", "",
     "", "", "", "", "", "", "", "", "", "", "", "", "", "",
     "", "", "" >>
HexDigits ==
  << <<"0","0">>, <<"0","1">>, <<"0","2">>, <<"0","3">>, <<"0","4">>,
     <<"0","5">>, <<"0","6">>, <<"0","7">>, <<"0","8">>, <<"0","b">>,
     <<"0","c">>, <<"0","e">>, <<"0","f">>, <<"1","0">>, <<"1","1">>,
     <<"1","2">>, <<"1","3">>, <<"1","4">>, <<"1","5">>, <<"1","6">>,
     <<"1","7">>, <<"1","8">>, <<"1","9">>, <<"1","a">>, <<"1","b">>,
     <<"1","c">>, <<"1","d">>, <<"1","e">>, <<"1","f">>, <<"7","f">> >>

\* what repr() writes for one byte of a bytes object inside the quote q
repr_byte(c, q) ==
  IF c = q \/ c = "\\\\" THEN <<"\\\\", c>>
  ELSE IF c = "\t" THEN <<"\\\\", "t">>
  ELSE IF c = "\n" THEN <<"\\\\", "n">>
  ELSE IF c = "\r" THEN <<"\\\\", "r">>
  ELSE IF \E i \in DOMAIN Unprintable : Unprintable[i] = c
  THEN <<"\\\\", "x">>
         \o HexDigits[CHOOSE i \in DOMAIN Unprintable : Unprintable[i] = c]
  ELSE <<c>>

RECURSIVE repr_from(_, _, _)
repr_from(b, i, q) ==
  IF i > Len(b) THEN <<>> ELSE repr_byte(b[i], q) \o repr_from(b, i + 1, q)

\* repr() of a bytes object: the quote is ' unless the bytes hold a ' and
\* no "
repr_bytes(b) ==
  LET q == IF (\E i \in DOMAIN b : b[i] = "'") /\ ~(\E i \in DOMAIN b : b[i] = "\"")
           THEN "\"" ELSE "'"
  IN <<"b", q>> \o repr_from(b, 1, q) \o <<q>>

\* str(response.content): a str is itself, a bytes object is written as
\* its repr(), another object as its text
str_content(outcome) ==
  IF outcome.type = "bytes" THEN repr_bytes(outcome.content)
  ELSE outcome.content

\* the whitespace of str.split() and str.strip(): the characters for which
\* str.isspace() holds
IsSpace(c) ==
  c \in { "\t", "\n", "", "\f", "\r", "", "", "", "", " ", "", " ", " ",
          "\\u2000", "\\u2001", "\\u2002", "\\u2003", "\\u2004", "\\u2005",
          "\\u2006", "\\u2007", "\\u2008", "\\u2009", "\\u200a", "\\u2028",
          "\\u2029", "\\u202f", "\\u205f", "\\u3000" }

\* content.split() from position i on: words are the words found so far,
\* word the characters of the word position i is in
RECURSIVE split_at(_, _, _, _)
split_at(content, i, words, word) ==
  IF i > Len(content)
  THEN IF word = <<>> THEN words ELSE Append(words, word)
  ELSE IF IsSpace(content[i])
  THEN split_at(content, i + 1,
                IF word = <<>> THEN words ELSE Append(words, word), <<>>)
  ELSE split_at(content, i + 1, words, Append(word, content[i]))

\* content.split(): the maximal runs of non-whitespace characters
split(content) == split_at(content, 1, <<>>, <<>>)

\* " ".join(words)
RECURSIVE join(_)
join(words) ==
  IF words = <<>> THEN <<>>
  ELSE IF Len(words) = 1 THEN words[1]
  ELSE words[1] \o <<" ">> \o join(Tail(words))

\* s.strip()
RECURSIVE strip(_)
strip(s) ==
  IF s = <<>> THEN s
  ELSE IF IsSpace(Head(s)) THEN strip(Tail(s))
  ELSE IF IsSpace(s[Len(s)]) THEN strip(SubSeq(s, 1, Len(s) - 1))
  ELSE s

\* words[i:i+3] for the 0-based index i
slice3(words, i) ==
  SubSeq(words, i + 1, IF i + 3 <= Len(words) THEN i + 3 ELSE Len(words))

\* request.threadId or f"thread-{len(active_threads) + 1}"
thread_id_for(threads, threadId) ==
  IF threadId # <<>> /\ threadId[1] # ""
  THEN threadId[1]
  ELSE "thread-" \o ToString(Cardinality(DOMAIN threads) + 1)

\* active_threads.get(thread_id): <<>> is None, <<t>> is the thread t
get(threads, thread_id) ==
  IF thread_id \in DOMAIN threads THEN <<threads[thread_id]>> ELSE <<>>

\* response.thread: the thread passed in, or for None a new thread, named
\* after the request that opened it
response_thread(thread, r) ==
  IF thread = <<>> THEN [opened_by |-> r] ELSE thread[1]

\* str(e) of an HTTPException
StrHTTPException(status_code, detail) ==
  ToString(status_code) \o ": " \o detail

\* the requests whose handler has started and not ended
Open == {r \in Requests : requests[r].pc \notin {"new", "closed"}}

\* the request of number r may arrive: the earlier ones have arrived, and
\* fewer than MaxInFlight requests are being handled
MayArrive(r) ==
  /\ requests[r] = NotSent
  /\ \A q \in Requests : q < r => requests[q] # NotSent
  /\ Cardinality(Open) < MaxInFlight

\* request r ends at position pc with the locals and answer in upd
Move(r, upd) ==
  requests' = [requests EXCEPT ![r] =
                 [f \in DOMAIN requests[r] \cup DOMAIN upd |->
                    IF f \in DOMAIN upd THEN upd[f] ELSE requests[r][f]]]

Handling(r, handler, pc) ==
  requests[r].pc = pc /\ requests[r].handler = handler

\* an HTTP answer: the status code and the body or error detail
Answer(status, detail) == [status |-> status, detail |-> detail]

\* one streamed line: json.dumps({...}) of the event
Event(type, field, value) == [type |-> type, field |-> field, value |-> value]

\* process_message, lines 73-83: up to the await of get_response
ProcessMessage(r, threadId) ==
  /\ MayArrive(r)
  /\ LET thread_id == thread_id_for(active_threads, threadId)
     IN requests' = [requests EXCEPT ![r] =
          [handler |-> "process_message", pc |-> "awaiting",
           threadId |-> threadId, thread_id |-> thread_id,
           thread |-> get(active_threads, thread_id),
           before |-> active_threads]]
  /\ UNCHANGED <<active_threads, pluginVars>>

\* what process_message does with the outcome of get_response, lines 85-100:
\* the threads afterwards and the answer (for status 200 the detail is the
\* response field of the MessageResponse). response.content is handed to
\* MessageResponse as it is; its field response is a str: a str is taken, a
\* bytes object is decoded, and any other object is refused, after the
\* thread was stored at line 87, so the except clause answers 500 with the
\* text of that error.
process_answer(threads, r, thread_id, thread, outcome) ==
  IF outcome.kind = "response" /\ outcome.type \in {"str", "bytes"}
  THEN [threads |-> Put(threads, thread_id, response_thread(thread, r)),
        answer  |-> [status |-> 200, detail |-> Str(outcome.content),
                     threadId |-> thread_id]]
  ELSE IF outcome.kind = "response"
  THEN [threads |-> Put(threads, thread_id, response_thread(thread, r)),
        answer  |-> Answer(500, "str(e)")]
  ELSE IF outcome.kind = "none"
  THEN [threads |-> threads,
        answer  |-> Answer(500, StrHTTPException(
                                  500, "Failed to get response from agent"))]
  ELSE [threads |-> threads, answer |-> Answer(500, "str(e)")]

\* process_message, lines 85-100: get_response has ended
ProcessAnswer(r, outcome) ==
  /\ Handling(r, "process_message", "awaiting")
  /\ \E out \in {process_answer(active_threads, r, requests[r].thread_id,
                                requests[r].thread, outcome)} :
       /\ active_threads' = out.threads
       /\ Move(r, [pc |-> "closed", outcome |-> outcome.kind,
                   stored_over |-> active_threads, answer |-> out.answer])
  /\ UNCHANGED pluginVars

\* delete_thread, lines 172-181: the HTTPException(404) raised in the try
\* block is an Exception, so the except clause raises HTTPException(500)
\* with detail str(e) in its place
delete_thread(threads, threadId) ==
  IF threadId \in DOMAIN threads
  THEN [threads |-> [k \in DOMAIN threads \ {threadId} |-> threads[k]],
        answer  |-> Answer(200, "success")]
  ELSE [threads |-> threads,
        answer  |-> Answer(500, StrHTTPException(404, "Thread not found"))]

\* delete_thread: the handler has no await and runs in one stretch
DeleteThread(r, threadId) ==
  /\ MayArrive(r)
  /\ \E out \in {delete_thread(active_threads, threadId)} :
       /\ active_threads' = out.threads
       /\ requests' = [requests EXCEPT ![r] =
            [handler |-> "delete_thread", pc |-> "closed",
             threadId |-> threadId, before |-> active_threads,
             answer |-> out.answer]]
  /\ UNCHANGED pluginVars

\* variant of next_event: the stream ends with its last content event
next_event_no_done(words, full_response, i) ==
  IF i < Len(words)
  THEN LET chunk == join(slice3(words, i))
           full  == full_response \o chunk \o <<" ">>
       IN [pc |-> IF i + 3 < Len(words) THEN "content_sent" ELSE "closed",
           i |-> i, full_response |-> full,
           event |-> Event("content", "content", Str(strip(full)))]
  ELSE [pc |-> "closed", i |-> i, full_response |-> full_response,
        event |-> Event("done", "", "")]

\* variant of next_event: the chunk alone is sent, not the text so far
next_event_chunk_only(words, full_response, i) ==
  IF i < Len(words)
  THEN LET chunk == join(slice3(words, i))
           full  == full_response \o chunk \o <<" ">>
       IN [pc |-> "content_sent", i |-> i, full_response |-> full,
           event |-> Event("content", "content", Str(chunk))]
  ELSE [pc |-> "closed", i |-> i, full_response |-> full_response,
        event |-> Event("done", "", "")]

\* stream_message, lines 137-151: the loop `for i in range(0, len(words), 3)`
\* at index i, up to its next yield: a content event with the text so far,
\* or after the loop the done event
next_event(words, full_response, i) ==
  IF i < Len(words)
  THEN LET chunk == join(slice3(words, i))
           full  == full_response \o chunk \o <<" ">>
       IN [pc |-> "content_sent", i |-> i, full_response |-> full,
           event |-> Event("content", "content", Str(strip(full)))]
  ELSE [pc |-> "closed", i |-> i, full_response |-> full_response,
        event |-> Event("done", "", "")]

\* stream_message.generate, lines 107-113: up to the first yield
StreamMessage(r, threadId) ==
  /\ MayArrive(r)
  /\ requests' = [requests EXCEPT ![r] =
       [handler |-> "stream_message", pc |-> "init_sent",
        threadId |-> threadId,
        thread_id |-> thread_id_for(active_threads, threadId),
        before |-> active_threads,
        events |-> <<Event("init", "content", "Thinking...")>>]]
  /\ UNCHANGED <<active_threads, pluginVars>>

\* generate, lines 116-119: the second yield
StreamMetadata(r) ==
  /\ Handling(r, "stream_message", "init_sent")
  /\ Move(r, [pc |-> "metadata_sent",
              events |-> Append(requests[r].events,
                                Event("metadata", "threadId",
                                      requests[r].thread_id))])
  /\ UNCHANGED <<active_threads, pluginVars>>

\* generate, lines 122-125: up to the await of get_response
StreamCallAgent(r) ==
  /\ Handling(r, "stream_message", "metadata_sent")
  /\ Move(r, [pc |-> "awaiting",
              thread |-> get(active_threads, requests[r].thread_id)])
  /\ UNCHANGED <<active_threads, pluginVars>>

\* generate, lines 127-163: get_response has ended; up to the next yield
StreamAnswer(r, outcome) ==
  /\ Handling(r, "stream_message", "awaiting")
  /\ IF outcome.kind = "response"
     THEN LET content == str_content(outcome)
              words == split(content)
              nxt   == next_event(words, <<>>, 0)
          IN /\ active_threads' =
                  Put(active_threads, requests[r].thread_id,
                      response_thread(requests[r].thread, r))
             /\ Move(r, [pc |-> nxt.pc, outcome |-> outcome.kind,
                         stored_over |-> active_threads,
                         content |-> content, words |-> words,
                         i |-> nxt.i, full_response |-> nxt.full_response,
                         events |-> Append(requests[r].events, nxt.event)])
     ELSE /\ UNCHANGED active_threads
          /\ Move(r, [pc |-> "closed", outcome |-> outcome.kind,
                      stored_over |-> active_threads,
                      events |-> Append(requests[r].events,
                                   Event("error", "error",
                                         IF outcome.kind = "none"
                                         THEN "Failed to get response from agent"
                                         ELSE "str(e)"))])
  /\ UNCHANGED pluginVars

\* generate, lines 137-151: after the sleep, the next turn of the loop or
\* the done event after it
StreamChunk(r) ==
  /\ Handling(r, "stream_message", "content_sent")
  /\ LET nxt == next_event(requests[r].words, requests[r].full_response,
                           requests[r].i + 3)
     IN Move(r, [pc |-> nxt.pc, i |-> nxt.i,
                 full_response |-> nxt.full_response,
                 events |-> Append(requests[r].events, nxt.event)])
  /\ UNCHANGED <<active_threads, pluginVars>>

\* thread ids a client asks to delete
ThreadIdsDeleted == {"thread-1", "thread-2"}

ServerInit ==
  /\ ServerIdle
  /\ current_orders = EmptyDict
  /\ order_counter = 0
  /\ last = NoCall
  /\ issued = <<>>
  /\ calls = [t \in Threads |-> Idle]

\* requests are handled concurrently: a request may arrive while earlier
\* ones wait for the agent or for their stream to be read
ServerNext ==
  \E r \in Requests :
    \/ \E threadId \in ThreadIdsSent : ProcessMessage(r, threadId)
    \/ \E outcome \in AgentOutcomes : ProcessAnswer(r, outcome)
    \/ \E threadId \in ThreadIdsSent : StreamMessage(r, threadId)
    \/ StreamMetadata(r)
    \/ StreamCallAgent(r)
    \/ \E outcome \in AgentOutcomes : StreamAnswer(r, outcome)
    \/ StreamChunk(r)
    \/ \E threadId \in ThreadIdsDeleted : DeleteThread(r, threadId)

ServerSpec == ServerInit /\ [][ServerNext]_vars

\* requests are handled one at a time: a request arrives when no other is
\* being handled
SerialNext ==
  \E r \in Requests :
    \/ \E threadId \in ThreadIdsSent : Open = {} /\ ProcessMessage(r, threadId)
    \/ \E outcome \in AgentOutcomes : ProcessAnswer(r, outcome)
    \/ \E threadId \in ThreadIdsSent : Open = {} /\ StreamMessage(r, threadId)
    \/ StreamMetadata(r)
    \/ StreamCallAgent(r)
    \/ \E outcome \in AgentOutcomes : StreamAnswer(r, outcome)
    \/ StreamChunk(r)
    \/ \E threadId \in ThreadIdsDeleted : Open = {} /\ DeleteThread(r, threadId)

SerialSpec == ServerInit /\ [][SerialNext]_vars

\* ================================================================ claims
\* Amounts of money are compared in cents: the cents of a total is the
\* stored float rounded to two decimals, which is what every message shows.

Soda      == <<"S","o","d","a">>
SodaLower == <<"s","o","d","a">>
Pepperoni == <<"P","e","p","p","e","r","o","n","i">>
Sushi     == <<"S","u","s","h","i">>

IsCall(op) == last.op = op
Added == IsCall("add_item_to_order") /\ last.result.kind = "added"

\* C1: in every reachable state every stored order's total equals the sum
\* of the unit prices (in cents) of the entries of its item list.
C1_TotalIsSumOfItemPrices ==
  \A id \in DOMAIN current_orders :
    current_orders[id].total.cents = Worth(current_orders[id].items)

\* C2: the ids given out by create_order are pairwise distinct, their
\* counter values strictly increase in assignment order, and each id names
\* the counter value it was formatted from.
C2_IdsDistinctAndIncreasing ==
  /\ \A i, j \in 1..Len(issued) :
       i < j => /\ issued[i].n < issued[j].n
                /\ issued[i].order_id # issued[j].order_id
  /\ \A i \in 1..Len(issued) : issued[i].order_id = OrderId(issued[i].n)
  /\ IsCall("create_order") =>
       /\ last.result.order_id \notin DOMAIN last.pre_orders
       /\ order_counter = last.pre_counter + 1
  /\ ~IsCall("create_order") /\ ~IsCall("none") =>
       order_counter = last.pre_counter

\* C2 witness: a second create_order after items were added in between.
C2_Witness ==
  /\ IsCall("create_order")
  /\ Len(issued) = 2
  /\ \E id \in DOMAIN last.pre_orders : last.pre_orders[id].items # <<>>

\* C3: a successful add_item_to_order with quantity >= 1 appends the item
\* name exactly quantity times, raises the order's total by unit price
\* times quantity, reports the new total, and changes no other order;
\* Pepperoni x2 on a fresh order gives 25.98 and "2x Pepperoni".
C3_AddAppendsAndCharges ==
  (Added /\ last.quantity >= 1) =>
    LET id     == last.order_id
        before == last.pre_orders[id]
        after  == current_orders[id]
        q      == last.quantity
    IN /\ Str(Lower(last.item_name)) \in DOMAIN price_lookup
       /\ Len(after.items) = Len(before.items) + q
       /\ SubSeq(after.items, 1, Len(before.items)) = before.items
       /\ \A i \in (Len(before.items) + 1)..Len(after.items) :
            after.items[i] = last.item_name
       /\ after.total.cents = before.total.cents + PriceCents(last.item_name) * q
       /\ after.customer_name = before.customer_name
       /\ last.result.total = Fmt2(after.total)
       /\ last.result.order_id = id
       /\ DOMAIN current_orders = DOMAIN last.pre_orders
       /\ \A other \in DOMAIN current_orders \ {id} :
            current_orders[other] = last.pre_orders[other]
       /\ order_counter = last.pre_counter
       /\ (before = new_order(before.customer_name)
             /\ last.item_name = Pepperoni /\ q = 2) =>
            /\ last.result.total = "25.98"
            /\ get_order_status(current_orders, order_counter, id).result.items
                 = "2x Pepperoni"

\* C3 witness: Pepperoni x2 was added to a fresh order while another order
\* holds items.
C3_Witness ==
  /\ Added
  /\ last.item_name = Pepperoni
  /\ last.quantity = 2
  /\ last.pre_orders[last.order_id].items = <<>>
  /\ last.result.total = "25.98"
  /\ \E other \in DOMAIN current_orders \ {last.order_id} :
       current_orders[other].items # <<>>

\* C4: add_item_to_order with an order id that is not in the table returns
\* the order-not-found message and leaves table and counter as they were.
C4_UnknownOrderLeavesStore ==
  (IsCall("add_item_to_order") /\ last.order_id \notin DOMAIN last.pre_orders) =>
    /\ last.result = [kind |-> "order_not_found_create_first",
                      order_id |-> last.order_id]
    /\ current_orders = last.pre_orders
    /\ order_counter = last.pre_counter

\* C4 witness: a menu item was added, quantity 2, to an id not in a table
\* that holds an order with items.
C4_Witness ==
  /\ IsCall("add_item_to_order")
  /\ last.order_id \notin DOMAIN last.pre_orders
  /\ last.item_name = Soda
  /\ last.quantity = 2
  /\ \E id \in DOMAIN last.pre_orders : last.pre_orders[id].items # <<>>

\* C5: add_item_to_order on an existing order with a name whose lowercase
\* is not one of the eleven keys of the price table returns the
\* item-not-found message and leaves every order unchanged, for every
\* quantity.
C5_UnknownItemLeavesStore ==
  /\ Cardinality(DOMAIN price_lookup) = 11
  /\ (/\ IsCall("add_item_to_order")
      /\ last.order_id \in DOMAIN last.pre_orders
      /\ Str(Lower(last.item_name)) \notin DOMAIN price_lookup) =>
       /\ last.result = [kind |-> "item_not_found",
                         item_name |-> Str(last.item_name)]
       /\ current_orders = last.pre_orders
       /\ order_counter = last.pre_counter

\* C5 witness: "Sushi" x2 was asked for on an order that holds items.
C5_Witness ==
  /\ IsCall("add_item_to_order")
  /\ last.order_id \in DOMAIN last.pre_orders
  /\ last.item_name = Sushi
  /\ last.quantity = 2
  /\ last.pre_orders[last.order_id].items # <<>>
  /\ last.result.kind = "item_not_found"

\* C6: complete_order and get_order_status leave table and counter
\* unchanged; after complete_order on an existing order the order is still
\* stored with the same fields, the message carries its customer name and
\* current total, get_order_status still succeeds and add_item_to_order is
\* still accepted.
C6_CompleteAndStatusReadOnly ==
  /\ (IsCall("complete_order") \/ IsCall("get_order_status")) =>
       /\ current_orders = last.pre_orders
       /\ order_counter = last.pre_counter
  /\ (IsCall("complete_order") /\ last.order_id \in DOMAIN last.pre_orders) =>
       LET id == last.order_id IN
       /\ id \in DOMAIN current_orders
       /\ current_orders[id] = last.pre_orders[id]
       /\ last.result = [kind |-> "completed",
                         customer_name |-> current_orders[id].customer_name,
                         order_id |-> id,
                         total |-> Fmt2(current_orders[id].total)]
       /\ get_order_status(current_orders, order_counter, id).result.kind = "status"
       /\ \A item_name \in ItemNames :
            Str(Lower(item_name)) \in DOMAIN price_lookup =>
              add_item_to_order(current_orders, order_counter, id, item_name, 1)
                .result.kind = "added"

\* C6 witness: Alice's order with Pepperoni x2 was completed.
C6_Witness ==
  /\ IsCall("complete_order")
  /\ last.order_id \in DOMAIN current_orders
  /\ last.result.kind = "completed"
  /\ last.result.customer_name = "Alice"
  /\ last.result.total = "25.98"
  /\ current_orders[last.order_id].items = <<Pepperoni, Pepperoni>>

\* C7: no step removes an order or changes its customer name: an id in the
\* table before a step is in it afterwards under the same name, and every
\* order ever created is stored under the name given at its creation.
C7_Step ==
  /\ \A id \in DOMAIN current_orders :
       /\ id \in DOMAIN current_orders'
       /\ current_orders'[id].customer_name = current_orders[id].customer_name
  /\ \A i \in 1..Len(issued') :
       /\ issued'[i].order_id \in DOMAIN current_orders'
       /\ current_orders'[issued'[i].order_id].customer_name
            = issued'[i].customer_name
\* C7, as a property of every step: orders are never deleted or renamed.
C7_OrdersNeverDeleted == [][C7_Step]_vars

\* C7 witness: two orders under different names exist, the first holds
\* items and has just been completed.
C7_Witness ==
  /\ IsCall("complete_order")
  /\ Len(issued) = 2
  /\ issued[1].customer_name # issued[2].customer_name
  /\ last.order_id = issued[1].order_id
  /\ last.pre_orders[last.order_id].items # <<>>

\* C8: right after create_order(name), for every name and the empty one,
\* the new order is stored under that name with no items and total 0,
\* get_order_status on its id reports that name, no items and 0.00, and no
\* order that existed before has changed.
C8_CreateOrderFresh ==
  IsCall("create_order") =>
    LET id == last.result.order_id
        st == get_order_status(current_orders, order_counter, id).result
    IN /\ last.result.kind = "order_created"
       /\ last.result.customer_name = last.customer_name
       /\ id \notin DOMAIN last.pre_orders
       /\ DOMAIN current_orders = DOMAIN last.pre_orders \cup {id}
       /\ current_orders[id].customer_name = last.customer_name
       /\ current_orders[id].items = <<>>
       /\ current_orders[id].total = Zero
       /\ st.kind = "status"
       /\ st.order_id = id
       /\ st.customer_name = last.customer_name
       /\ st.items_list = <<>>
       /\ st.items = ""
       /\ st.total = "0.00"
       /\ \A old \in DOMAIN last.pre_orders :
            current_orders[old] = last.pre_orders[old]

\* C8 witness: an order was created under the empty name while an earlier
\* order holds items.
C8_Witness ==
  /\ IsCall("create_order")
  /\ last.customer_name = ""
  /\ \E old \in DOMAIN last.pre_orders : last.pre_orders[old].items # <<>>

\* number of entries of an item list that are spelled name
Occurrences(items, name) ==
  Cardinality({i \in 1..Len(items) : items[i] = name})

\* C9 as the spec states it: after two successive successful
\* add_item_to_order calls on one order with one item name and quantities
\* q1, q2 >= 1 the status summary shows a single entry "(q1+q2)x name"
\* (read for a name the order did not hold before), the total has grown by
\* unit price times (q1+q2), and the order table is the one that a single
\* call with quantity q1+q2 leaves: the same item lists and the same stored
\* floats.
C9_OriginalStep ==
  (/\ last'.op = "add_item_to_order"
   /\ last'.result.kind = "added"
   /\ last'.quantity >= 1
   /\ last'.repeat_of >= 1) =>
    LET id      == last'.order_id
        name    == last'.item_name
        q1      == last.quantity
        q2      == last'.quantity
        start   == last.pre_orders[id]
        once    == add_item_to_order(last.pre_orders, last.pre_counter,
                                     id, name, q1 + q2)
        status  == get_order_status(current_orders', order_counter', id).result
    IN /\ Occurrences(start.items, name) = 0 =>
            Cardinality({i \in 1..Len(status.items_list) :
                           status.items_list[i]
                             = ToString(q1 + q2) \o "x " \o Str(name)}) = 1
       /\ current_orders'[id].total.cents
            = start.total.cents + PriceCents(name) * (q1 + q2)
       /\ current_orders' = once.orders
C9_Original == [][C9_OriginalStep]_vars

\* C9, amended: two successive successful add_item_to_order calls on one
\* order with one item name and quantities q1, q2 >= 1 leave the order as
\* one call with quantity q1+q2 from the same start would, up to the last
\* bits of the stored total: the same item list, the same total in cents
\* and as printed, every other order as it was; the status summary has a
\* single entry for the name, counting the entries the order held before
\* and q1+q2 more ("(q1+q2)x name" when the name was not in the order), and
\* the total in cents has grown by unit price times (q1+q2); Soda x1 twice
\* on a fresh order gives "2x Soda" and 3.98.
C9_Step ==
  (/\ last'.op = "add_item_to_order"
   /\ last'.result.kind = "added"
   /\ last'.quantity >= 1
   /\ last'.repeat_of >= 1) =>
    LET id      == last'.order_id
        name    == last'.item_name
        q1      == last.quantity
        q2      == last'.quantity
        start   == last.pre_orders[id]
        now     == current_orders'[id]
        once    == add_item_to_order(last.pre_orders, last.pre_counter,
                                     id, name, q1 + q2)
        status  == get_order_status(current_orders', order_counter', id).result
        pairs   == items_summary(now.items)
        entry   == ToString(Occurrences(start.items, name) + q1 + q2)
                     \o "x " \o Str(name)
    IN /\ q1 = last'.repeat_of
       /\ once.result.kind = "added"
       /\ now.items = once.orders[id].items
       /\ now.total.cents = once.orders[id].total.cents
       /\ now.customer_name = once.orders[id].customer_name
       /\ DOMAIN current_orders' = DOMAIN once.orders
       /\ \A other \in DOMAIN current_orders' \ {id} :
            current_orders'[other] = once.orders[other]
       /\ now.total.cents = start.total.cents + PriceCents(name) * (q1 + q2)
       /\ Cardinality({i \in 1..Len(pairs) : pairs[i][1] = name}) = 1
       /\ Cardinality({i \in 1..Len(status.items_list) :
                         status.items_list[i] = entry}) = 1
       /\ status.items_list
            = get_order_status(once.orders, once.counter, id).result.items_list
       /\ status.total
            = get_order_status(once.orders, once.counter, id).result.total
       /\ Occurrences(start.items, name) = 0 =>
            Cardinality({i \in 1..Len(status.items_list) :
                           status.items_list[i]
                             = ToString(q1 + q2) \o "x " \o Str(name)}) = 1
       /\ start.items = <<>> => status.items_list = <<entry>>
       /\ (start = new_order(start.customer_name)
             /\ name = Soda /\ q1 = 1 /\ q2 = 1) =>
            status.items = "2x Soda" /\ status.total = "3.98"
\* C9, amended, as a property of every step: two successive adds of one
\* item accumulate like one add of the summed quantity, to the cent.
C9_TwoAddsAccumulate == [][C9_Step]_vars

\* C9 witness: Soda x1 was added twice in a row to a fresh order.
C9_Witness ==
  /\ Added
  /\ last.item_name = Soda
  /\ last.quantity = 1
  /\ last.repeat_of = 1
  /\ current_orders[last.order_id].items = <<Soda, Soda>>
  /\ last.result.total = "3.98"

\* positions at which an item list shows a name for the first time
FirstSeen(items) ==
  {i \in 1..Len(items) : \A j \in 1..(i - 1) : items[j] # items[i]}

\* how many positions of S are at or before i
Rank(S, i) == Cardinality({j \in S : j <= i})

RECURSIVE SumCounts(_)
SumCounts(pairs) ==
  IF pairs = <<>> THEN 0 ELSE Head(pairs)[2] + SumCounts(Tail(pairs))

\* C10: get_order_status on an existing order renders one "count x name"
\* entry per distinctly spelled name of the item list, the count being the
\* number of entries of that spelling, the entries in the order in which
\* the names first occur in the list; the counts sum to the list's length.
C10_StatusAggregates ==
  (IsCall("get_order_status") /\ last.order_id \in DOMAIN last.pre_orders) =>
    LET order == last.pre_orders[last.order_id]
        items == order.items
        first == FirstSeen(items)
        shown == last.result.items_list
        pairs == items_summary(items)
    IN /\ last.result.kind = "status"
       /\ last.result.order_id = last.order_id
       /\ last.result.customer_name = order.customer_name
       /\ last.result.total = Fmt2(order.total)
       /\ Len(shown) = Cardinality(first)
       /\ Len(pairs) = Cardinality(first)
       /\ \A i \in first :
            /\ pairs[Rank(first, i)] = <<items[i], Occurrences(items, items[i])>>
            /\ shown[Rank(first, i)]
                 = ToString(Occurrences(items, items[i])) \o "x " \o Str(items[i])
       /\ SumCounts(pairs) = Len(items)
       /\ last.result.items = Join(shown)

\* C10 witness: the status of an order holding Soda, soda, Soda was asked.
C10_Witness ==
  /\ IsCall("get_order_status")
  /\ last.order_id \in DOMAIN last.pre_orders
  /\ last.pre_orders[last.order_id].items = <<Soda, SodaLower, Soda>>
  /\ last.result.items = "2x Soda, 1x soda"

\* an add_item_to_order call on an existing order with a name on the menu
ValidAdd ==
  /\ IsCall("add_item_to_order")
  /\ last.order_id \in DOMAIN last.pre_orders
  /\ Str(Lower(last.item_name)) \in DOMAIN price_lookup

\* C11: add_item_to_order on an existing order with a valid item and a
\* quantity <= 0 is not rejected: it returns the success confirmation, and
\* both the item list and the total are adjusted by that quantity (the
\* list's number of entries of the name changes by quantity, the total by
\* unit price times quantity).
C11_NonPositiveQuantityAdjustsBoth ==
  (ValidAdd /\ last.quantity <= 0) =>
    LET id     == last.order_id
        before == last.pre_orders[id]
        after  == current_orders[id]
        q      == last.quantity
    IN /\ last.result.kind = "added"
       /\ last.result.quantity = ToString(q)
       /\ after.total.cents = before.total.cents + PriceCents(last.item_name) * q
       /\ Len(after.items) = Len(before.items) + q
       /\ Occurrences(after.items, last.item_name)
            = Occurrences(before.items, last.item_name) + q

\* the capital of the letters a-z; other characters are kept
UpperChar(c) ==
  CASE c = "a" -> "A" [] c = "b" -> "B" [] c = "c" -> "C" [] c = "d" -> "D"
    [] c = "e" -> "E" [] c = "f" -> "F" [] c = "g" -> "G" [] c = "h" -> "H"
    [] c = "i" -> "I" [] c = "j" -> "J" [] c = "k" -> "K" [] c = "l" -> "L"
    [] c = "m" -> "M" [] c = "n" -> "N" [] c = "o" -> "O" [] c = "p" -> "P"
    [] c = "q" -> "Q" [] c = "r" -> "R" [] c = "s" -> "S" [] c = "t" -> "T"
    [] c = "u" -> "U" [] c = "v" -> "V" [] c = "w" -> "W" [] c = "x" -> "X"
    [] c = "y" -> "Y" [] c = "z" -> "Z" [] OTHER -> c

\* str.swapcase() on one character
SwapChar(c) == IF LowerChar(c) # c THEN LowerChar(c) ELSE UpperChar(c)

\* spellings that differ from name only in the case of the letters a-z (and
\* by str.lower() of its other characters): all upper, all lower, case
\* swapped, alternating upper and lower
Spellings(name) ==
  { [i \in 1..Len(name) |-> UpperChar(name[i])],
    [i \in 1..Len(name) |-> LowerChar(name[i])],
    [i \in 1..Len(name) |-> SwapChar(name[i])],
    [i \in 1..Len(name) |-> IF i % 2 = 1 THEN UpperChar(name[i])
                            ELSE LowerChar(name[i])] }

\* the capital of a letter (str.upper()), for a-z, the long s and the
\* dotless i; other characters are kept
Capital(c) ==
  IF c = "\\u017f" THEN "S" ELSE IF c = "\\u0131" THEN "I" ELSE UpperChar(c)

\* two spellings differ only in letter case: at every position the two
\* characters have the same capital or the same lower-case letter
DifferOnlyInCase(a, b) ==
  /\ Len(a) = Len(b)
  /\ \A i \in 1..Len(a) :
       Capital(a[i]) = Capital(b[i]) \/ LowerChar(a[i]) = LowerChar(b[i])

\* the outcome of the call just made with the item name spelled other is
\* the one the call had: both are added at the same unit price and leave
\* the same total, or both fail with item-not-found
SameOutcome(other) ==
  LET id  == last.order_id
      out == add_item_to_order(last.pre_orders, last.pre_counter,
                               id, other, last.quantity)
  IN /\ last.result.kind \in {"added", "item_not_found"}
     /\ out.result.kind = last.result.kind
     /\ last.result.kind = "added" =>
          /\ out.result.item_price = last.result.item_price
          /\ out.result.total = last.result.total
          /\ out.orders[id].total = current_orders[id].total
          /\ current_orders[id].total.cents
               = last.pre_orders[id].total.cents
                   + PriceCents(Lower(last.item_name)) * last.quantity

\* C12 as the spec states it: the price lookup of add_item_to_order ignores
\* letter case: on an existing order, any two spellings of an item name
\* that differ only in letter case give the same outcome.
C12_Original ==
  (IsCall("add_item_to_order") /\ last.order_id \in DOMAIN last.pre_orders) =>
    \A other \in MenuItemNames \cup Spellings(last.item_name) :
      DifferOnlyInCase(other, last.item_name) => SameOutcome(other)

\* C12, amended: the price lookup of add_item_to_order goes by
\* item_name.lower(): on an existing order, any two spellings with the same
\* lower() give the same outcome (both are added at the same unit price and
\* leave the same total, or both fail with item-not-found), and spellings
\* that differ only in the case of the letters a-z have the same lower().
C12_LookupByLowerCase ==
  (IsCall("add_item_to_order") /\ last.order_id \in DOMAIN last.pre_orders) =>
    /\ \A other \in Spellings(last.item_name) :
         Lower(other) = Lower(last.item_name)
    /\ \A other \in MenuItemNames \cup Spellings(last.item_name) :
         Lower(other) = Lower(last.item_name) => SameOutcome(other)
    /\ \A other \in MenuItemNames :
         (Lower(other) # Lower(last.item_name)
            /\ Str(Lower(other)) \notin DOMAIN price_lookup
            /\ last.result.kind = "added") =>
           add_item_to_order(last.pre_orders, last.pre_counter, last.order_id,
                             other, last.quantity).result.kind = "item_not_found"

\* C12 witness: "Soda" x2 was added to an order that holds items, and
\* "SODA", "soda", "sODA" and "SoDa" are four other spellings of it.
C12_Witness ==
  /\ Added
  /\ last.item_name = Soda
  /\ last.quantity = 2
  /\ last.pre_orders[last.order_id].items # <<>>
  /\ Cardinality(Spellings(Soda) \ {Soda}) = 4

\* C13: add_item_to_order returns (never raises) one of its two error
\* messages exactly when the order id is unknown or the lowercased item
\* name is not in the price table, and the order-not-found message when
\* both hold; get_order_status and complete_order return their not-found
\* message exactly when the order id is unknown.
C13_ErrorsIffUnknown ==
  /\ IsCall("add_item_to_order") =>
       LET unknown_order == last.order_id \notin DOMAIN last.pre_orders
           unknown_item  == Str(Lower(last.item_name)) \notin DOMAIN price_lookup
       IN /\ last.result.kind
               \in {"added", "order_not_found_create_first", "item_not_found"}
          /\ (last.result.kind # "added") <=> (unknown_order \/ unknown_item)
          /\ unknown_order =>
               last.result = [kind |-> "order_not_found_create_first",
                              order_id |-> last.order_id]
          /\ (~unknown_order /\ unknown_item) =>
               last.result = [kind |-> "item_not_found",
                              item_name |-> Str(last.item_name)]
  /\ IsCall("get_order_status") =>
       /\ last.result.kind \in {"status", "order_not_found_check_id"}
       /\ (last.result.kind = "order_not_found_check_id")
            <=> (last.order_id \notin DOMAIN last.pre_orders)
  /\ IsCall("complete_order") =>
       /\ last.result.kind \in {"completed", "order_not_found_check_id"}
       /\ (last.result.kind = "order_not_found_check_id")
            <=> (last.order_id \notin DOMAIN last.pre_orders)

\* C13 witness: "Sushi" was asked for on an id that is not in a table
\* holding another order, so both error conditions hold at once.
C13_Witness ==
  /\ IsCall("add_item_to_order")
  /\ last.order_id \notin DOMAIN last.pre_orders
  /\ last.item_name = Sushi
  /\ last.pre_orders # EmptyDict
  /\ last.result.kind = "order_not_found_create_first"

\* both threads have returned from a call of op
BothDone(op) == \A t \in Threads : At(t, op, "done")

\* the two create_order calls raced on the counter: both loaded the same
\* value, or one formatted its id after the other had stored the counter
RacedOnCounter ==
  \/ calls["t1"].counter_read = calls["t2"].counter_read
  \/ \E t \in Threads : calls[t].n # calls[t].counter_read + 1

\* C14: nothing in the plugin excludes interleavings, and an interleaved
\* read-modify-write loses an update. When two add_item_to_order calls on
\* one order have both returned, the total is the one stored last: the
\* total that call loaded plus its price times quantity; for quantities of
\* at least 1 the order's total is below the sum of the prices of its items
\* exactly when both loaded the same total before either stored (the total
\* then misses one call's price times quantity); when two create_order
\* calls have both returned, they were given the same id exactly when they
\* raced on the counter, and the table then holds one new order instead of
\* two.
C14_InterleavingLosesUpdate ==
  /\ (/\ BothDone("add_item_to_order")
      /\ \A t \in Threads : calls[t].result.kind = "added"
      /\ calls["t1"].order_id = calls["t2"].order_id) =>
       LET a     == calls["t1"]
           b     == calls["t2"]
           order == current_orders[a.order_id]
           sum   == Worth(order.items)
           same  == a.total_read = b.total_read
       IN /\ order.total.cents
               \in {a.total_read.cents + PriceCents(a.item_name) * a.quantity,
                    b.total_read.cents + PriceCents(b.item_name) * b.quantity}
          /\ (a.quantity >= 1 /\ b.quantity >= 1) =>
               /\ same <=> order.total.cents < sum
               /\ same => order.total.cents
                            \in {sum - PriceCents(a.item_name) * a.quantity,
                                 sum - PriceCents(b.item_name) * b.quantity}
               /\ ~same => order.total.cents = sum
               /\ Len(order.items) >= a.quantity + b.quantity
  /\ BothDone("create_order") =>
       LET a == calls["t1"]
           b == calls["t2"]
           before == IF a.counter_read < b.counter_read
                     THEN a.counter_read ELSE b.counter_read
       IN /\ (a.order_id = b.order_id) <=> RacedOnCounter
          /\ Cardinality(DOMAIN current_orders)
               = before + (IF a.order_id = b.order_id THEN 1 ELSE 2)
          /\ Len(issued) = 2

\* C14 witness: a Pepperoni and a Soda call on one order, each with a
\* quantity of at least 1, have both returned, both items are in the list,
\* and the total is below their sum.
C14_Witness ==
  /\ BothDone("add_item_to_order")
  /\ calls["t1"].order_id = calls["t2"].order_id
  /\ calls["t1"].item_name = Pepperoni
  /\ calls["t2"].item_name = Soda
  /\ \A t \in Threads : calls[t].result.kind = "added" /\ calls[t].quantity >= 1
  /\ LET order == current_orders[calls["t1"].order_id]
     IN /\ \E i, j \in 1..Len(order.items) :
             order.items[i] = Pepperoni /\ order.items[j] = Soda
        /\ order.total.cents < Worth(order.items)

\* two create_order calls have returned the same id
C14_SameIdTwice ==
  /\ BothDone("create_order")
  /\ calls["t1"].result.order_id = calls["t2"].result.order_id

\* request r went to process_message or stream_message without a threadId
NoThreadIdSent(r) ==
  /\ requests[r].pc # "new"
  /\ requests[r].handler \in {"process_message", "stream_message"}
  /\ requests[r].threadId = <<>>

\* C15: with requests handled one at a time, a request without threadId is
\* assigned a thread id that is not a key of active_threads at that moment,
\* so it is not handed the stored thread of another conversation and its
\* own thread is not stored over one.
C15_NewConversationGetsFreshId ==
  \A r \in Requests :
    NoThreadIdSent(r) =>
      /\ requests[r].thread_id \notin DOMAIN requests[r].before
      /\ "thread" \in DOMAIN requests[r] => requests[r].thread = <<>>
      /\ (requests[r].pc = "closed" /\ requests[r].outcome = "response") =>
           requests[r].thread_id \notin DOMAIN requests[r].stored_over

\* C16: two requests without threadId that are being handled at the same
\* time are assigned different thread ids, so that neither stores its
\* thread over the other's entry of active_threads.
C16_RequestsInFlightGetDistinctIds ==
  \A r, q \in Requests :
    (/\ r # q
     /\ NoThreadIdSent(r) /\ NoThreadIdSent(q)
     /\ r \in Open /\ q \in Open) =>
      requests[r].thread_id # requests[q].thread_id

\* C17, for one step: a delete_thread whose threadId is not a key of
\* active_threads is answered with status 404, "Thread not found", and
\* leaves active_threads as it was; one whose threadId is a key removes
\* that entry, keeps every other entry and is answered with success.
C17_Step ==
  \A r \in Requests :
    (/\ requests[r].pc = "new"
     /\ requests'[r].pc = "closed"
     /\ requests'[r].handler = "delete_thread") =>
      LET threadId == requests'[r].threadId
          answer   == requests'[r].answer
      IN IF threadId \in DOMAIN active_threads
         THEN /\ DOMAIN active_threads' = DOMAIN active_threads \ {threadId}
              /\ \A k \in DOMAIN active_threads' :
                   active_threads'[k] = active_threads[k]
              /\ answer = Answer(200, "success")
         ELSE /\ active_threads' = active_threads
              /\ answer = Answer(404, "Thread not found")
\* C17, as a property of every step of the server.
C17_DeleteAnswers == [][C17_Step]_vars

\* request record req is a stream_message request that has arrived
IsStream(req) == req.pc # "new" /\ req.handler = "stream_message"

IsTerminal(event) == event.type \in {"done", "error"}

\* the agent returned a response to the request
GotResponse(req) == "outcome" \in DOMAIN req /\ req.outcome = "response"

\* the events of a stream so far: init, then metadata with the thread id,
\* then content events, then one terminal event, which is the last event
\* and is there exactly when the stream has ended
StreamShape(req) ==
  LET ev == req.events
      n  == Len(ev)
  IN /\ n >= 1
     /\ ev[1] = Event("init", "content", "Thinking...")
     /\ n >= 2 => ev[2] = Event("metadata", "threadId", req.thread_id)
     /\ \A i \in 3..n : ev[i].type \in {"content", "done", "error"}
     /\ \A i \in 1..n : IsTerminal(ev[i]) => (i = n /\ req.pc = "closed")
     /\ req.pc = "closed" => (n >= 3 /\ IsTerminal(ev[n]))
     /\ (\E i \in 1..n : ev[i].type = "content") => GotResponse(req)
     /\ req.pc = "closed" => (ev[n].type = "done" <=> GotResponse(req))

\* C18, for one step: every stream is one init event, one metadata event
\* with the thread id, content events, and one terminal done or error event
\* after which nothing is sent; events are only appended; content events
\* are sent only after the agent returned a response; and a step of a
\* stream changes active_threads only when the agent returned a response,
\* by storing under the stream's thread id (a stream ending in error after
\* the agent failed or returned nothing leaves active_threads unchanged).
C18_Step ==
  \A r \in Requests :
    IsStream(requests'[r]) =>
      /\ StreamShape(requests'[r])
      /\ requests[r].pc = "closed" => requests'[r] = requests[r]
      /\ IsStream(requests[r]) =>
           /\ Len(requests'[r].events) <= Len(requests[r].events) + 1
           /\ SubSeq(requests'[r].events, 1, Len(requests[r].events))
                = requests[r].events
      /\ (requests'[r] # requests[r] /\ active_threads' # active_threads) =>
           /\ requests[r].pc = "awaiting"
           /\ GotResponse(requests'[r])
           /\ DOMAIN active_threads'
                = DOMAIN active_threads \cup {requests[r].thread_id}
           /\ \A k \in DOMAIN active_threads \ {requests[r].thread_id} :
                active_threads'[k] = active_threads[k]
      /\ (/\ requests'[r] # requests[r]
          /\ requests'[r].pc = "closed"
          /\ requests'[r].events[Len(requests'[r].events)].type = "error") =>
           /\ active_threads' = active_threads
           /\ requests'[r].outcome \in {"none", "raises"}
\* C18, as a property of every step of the server.
C18_StreamIsWellFormed == [][C18_Step]_vars

\* C18 witness: one stream has ended with done after three content events
\* and stored its thread, another has ended with error while a third
\* request was being handled.
C18_Witness ==
  \E r, q \in Requests :
    /\ IsStream(requests[r]) /\ requests[r].pc = "closed"
    /\ Len(requests[r].events) = 6
    /\ requests[r].events[6].type = "done"
    /\ requests[r].thread_id \in DOMAIN active_threads
    /\ IsStream(requests[q]) /\ requests[q].pc = "closed"
    /\ requests[q].events[Len(requests[q].events)].type = "error"
    /\ Open # {}

\* positions at which a word of the text c begins, and at which it ends
WordStarts(c) ==
  {i \in 1..Len(c) : ~IsSpace(c[i]) /\ (i = 1 \/ IsSpace(c[i - 1]))}
WordEnds(c) ==
  {i \in 1..Len(c) : ~IsSpace(c[i]) /\ (i = Len(c) \/ IsSpace(c[i + 1]))}

\* the words of the text c in order, as strings: the k-th runs from the
\* k-th word start to the k-th word end
WordsOf(c) ==
  [k \in 1..Cardinality(WordStarts(c)) |->
     LET from == CHOOSE i \in WordStarts(c) : Rank(WordStarts(c), i) = k
         to   == CHOOSE i \in WordEnds(c) : Rank(WordEnds(c), i) = k
     IN Str(SubSeq(c, from, to))]

\* the words number a to b of the word list w joined by single spaces
RECURSIVE WordsFromTo(_, _, _)
WordsFromTo(w, a, b) ==
  IF a > b THEN ""
  ELSE IF a = b THEN w[a]
  ELSE WordsFromTo(w, a, b - 1) \o " " \o w[b]

Min(a, b) == IF a < b THEN a ELSE b

\* the values of the content events of a stream, in the order sent
ContentsSent(req) ==
  LET ev == req.events
  IN [k \in 1..Cardinality({i \in 1..Len(ev) : ev[i].type = "content"}) |->
        ev[k + 2].value]

\* C19: for a response of n whitespace-separated words, the k-th content
\* event of the stream carries the first min(3k, n) words joined by single
\* spaces, each content extends the previous one by a space and the next
\* words, and a stream that has ended has sent ceil(n/3) content events,
\* the last carrying all n words, and then done; for n = 0 it has sent no
\* content event and ends with done.
C19_ContentGrowsThreeWords ==
  \A r \in Requests :
    (IsStream(requests[r]) /\ GotResponse(requests[r])) =>
      \A w \in {WordsOf(requests[r].content)},
         sent \in {ContentsSent(requests[r])} :
        LET req == requests[r]
            n   == Len(w)
        IN /\ Len(sent) <= (n + 2) \div 3
           /\ \A k \in 1..Len(sent) :
                /\ req.events[k + 2].type = "content"
                /\ sent[k] = WordsFromTo(w, 1, Min(3 * k, n))
                /\ k > 1 => sent[k] = sent[k - 1] \o " "
                                        \o WordsFromTo(w, 3 * k - 2, Min(3 * k, n))
           /\ req.pc = "closed" =>
                /\ Len(sent) = (n + 2) \div 3
                /\ n > 0 => sent[Len(sent)] = WordsFromTo(w, 1, n)
                /\ req.events[Len(req.events)] = Event("done", "", "")
                /\ Len(req.events) = Len(sent) + 3
                /\ n = 0 => req.events
                              = <<Event("init", "content", "Thinking..."),
                                  Event("metadata", "threadId", req.thread_id),
                                  Event("done", "", "")>>

\* C19 witness: the four words of a text with a blank, a no-break space, a
\* newline and a form feed between them were streamed as "a b c" and
\* "a b c d", and the stream has ended.
C19_Witness ==
  \E r \in Requests :
    /\ IsStream(requests[r]) /\ requests[r].pc = "closed"
    /\ GotResponse(requests[r])
    /\ requests[r].content = <<" ","a"," "," ","b","\n","c","\f","d">>
    /\ ContentsSent(requests[r]) = <<"a b c", "a b c d">>

====
